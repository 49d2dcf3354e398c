----------------------------- MODULE MCPngRows -----------------------------
(* Every image of up to 9 by 9 pixels, interlaced, with each pair of ways to
   handle interlacing; and fewer sizes with every choice of filters, changed once
   between two rows.  Files for the progressive reader come in pieces of several
   sizes, the smallest ones also with damage, pieces of two sizes and chunks around
   the image, some of them in the wrong place. *)
EXTENDS PngProgressive

AllFilters == 0 .. 4

Job(w, h, d, shade, way, filters, changes) ==
  [width |-> w, height |-> h, depth |-> d, shade |-> shade,
   interlaced |-> way[1], writeHandling |-> way[2], readHandling |-> way[3], progressive |-> way[4],
   filters |-> filters, filterCalls |-> changes]

Plain == {<<FALSE, FALSE, FALSE, p>> : p \in BOOLEAN}
Interlaced == {<<TRUE, w, r, p>> : w, r, p \in BOOLEAN}

MCJobs ==
  {Job(w, h, 8, "Noise", m, AllFilters, 0) : w, h \in 1 .. 9, m \in {<<TRUE, TRUE, TRUE, FALSE>>, <<TRUE, FALSE, TRUE, TRUE>>}}
  \cup {Job(w, h, 1, "Noise", m, AllFilters, 0) : w \in 1 .. 9, h \in {1, 2, 3, 5}, m \in {<<TRUE, TRUE, TRUE, FALSE>>, <<TRUE, TRUE, TRUE, TRUE>>}}
  \cup {Job(w, h, d, "Slope", m, AllFilters, 0) : w \in {3, 5, 9}, h \in {3, 5}, d \in {4, 16}, m \in Interlaced}
  \cup {Job(w, h, d, s, m, f, 0) : w \in {1, 5}, h \in {1, 3}, d \in {2, 8, 24}, s \in {"Slope", "Noise"}, m \in Plain, f \in FilterChoices}
  \cup {Job(w, h, 8, "Slope", m, f, 1) : w \in {1, 3}, h \in {1, 3}, m \in {<<FALSE, FALSE, FALSE, FALSE>>, <<TRUE, TRUE, TRUE, FALSE>>}, f \in FilterChoices}

(* A byte of a pixel: Slope changes little from pixel to pixel, Noise much. *)
Value(shade, x, y, k) ==
  CASE shade = "Slope" -> (17 * x + 5 * y + 90 * k) % 256
    [] shade = "Noise" -> (x * x * 57 + y * y * 101 + x * y * 35 + 119 * k + 13) % 256

MCPicture(j) ==
  [y \in 0 .. j.height - 1 |->
     [x \in 0 .. j.width - 1 |->
        IF j.depth < 8 THEN (Value(j.shade, x, y, 0) \div 3) % Bit[j.depth]
        ELSE [k \in 1 .. j.depth \div 8 |-> Value(j.shade, x, y, k)]]]

MCFilterChoices == {{}, {0}, {1}, {2}, {3}, {4}, {0, 1}, {1, 2}, 0 .. 4}

Delivery(pieces, idat, damaged, behind) ==
  [pieces |-> pieces, idat |-> idat, before |-> <<>>, after |-> <<>>, palette |-> FALSE,
   damaged |-> damaged, behind |-> behind]
C(name, length) == [name |-> name, length |-> length]

(* Files with more chunks than the image needs, some where they may not be. *)
Chunks ==
  {[before |-> b, after |-> <<>>, palette |-> p] :
     b \in {<<>>, <<C("PLTE", 3), C("other", 2)>>, <<C("other", 4)>>, <<C("PLTE", 3), C("PLTE", 3)>>, <<C("IHDR", 13)>>, <<C("IHDR", 3)>>, <<C("IEND", 0)>>},
     p \in BOOLEAN}
  \cup {[before |-> <<>>, after |-> a, palette |-> FALSE] :
          a \in {<<C("IDAT", 0), C("IDAT", 3)>>, <<C("PLTE", 3), C("PLTE", 3)>>, <<C("other", 1), C("IDAT", 3), C("IDAT", 0)>>}}
Decorated(d, c) == [d EXCEPT !.before = c.before, !.after = c.after, !.palette = c.palette]

MCDeliveries ==
  [j \in MCJobs |->
     IF ~j.progressive THEN {Delivery({100}, 100, {}, 0)}
     ELSE {Delivery({7}, 5, {}, 0), Delivery({50}, 100, {}, 0)}
          \cup (IF j.height > 5 \/ j.width > 5 THEN {} ELSE {Delivery({p}, 9, {}, 0) : p \in {3, 11, 19}})
          \cup (IF j.height > 2 \/ j.width > 2 \/ j.depth # 8 \/ j.filters # AllFilters THEN {}
                ELSE {Delivery({p}, 2, {}, 3) : p \in 1 .. 9}
                     \cup {Delivery({p, 30}, 2, {}, 0) : p \in {4, 17}}
                     \cup {Delivery({6}, 2, {d}, 0) : d \in {5, 29, 43}}
                     \cup {Decorated(Delivery({p}, 4, m, 0), c) : p \in {5, 23}, m \in {{}, {45}}, c \in Chunks})]
============================================================================

-------------------------------- MODULE LayoutFit --------------------------------
(***************************************************************************)
(* layout_qa: autofit_layout repairs the bands of the master report, and   *)
(* lint_layout says what is wrong with a layout. Lengths are in tenths of  *)
(* a point, the precision the code rounds to.                              *)
(***************************************************************************)
EXTENDS ReportLayout

Gap == 20               \* _DEOVERLAP_GAP
Texts == {"label", "field", "special"}
Content == Texts \union {"chart", "image"}

Round(n, d) == (2 * n + d) \div (2 * d)

Reach(a, b, at, size) == Min({a[at] + a[size], b[at] + b[size]}) - Max({a[at], b[at]})
Across(a, b) == Reach(a, b, "x", "width")
Down(a, b) == Reach(a, b, "y", "height")
Area(o) == o.width * o.height
Touch(a, b) == Across(a, b) > 0 /\ Down(a, b) > 0
Collide(a, b) == Touch(a, b) /\ 10 * Across(a, b) * Down(a, b) > 4 * Min({Area(a), Area(b)})

-----------------------------------------------------------------------------
(* Backdrops: a picture much larger than what it overlaps goes to the      *)
(* front of the band, where it is painted first.                           *)
IsBackdrop(img, o) ==
  KindOf(img) = "image" /\ Touch(img, o) /\ 2 * Area(img) >= 3 * Max({Area(o), 100})

(* Mutant of PromoteBackdrops: a backdrop goes behind one place only.      *)
PromoteOnePlace(objects) ==
  LET back == {i \in DOMAIN objects : \E j \in DOMAIN objects \ {i} :
                 KindOf(objects[j]) \in Texts \union {"image"} /\ IsBackdrop(objects[i], objects[j])}
      swaps == {i \in back : i > 1 /\ KindOf(objects[i - 1]) # "image"}
  IN  IF swaps = {} THEN objects
      ELSE LET i == Min(swaps) IN [objects EXCEPT ![i] = objects[i - 1], ![i - 1] = objects[i]]

PromoteBackdrops(objects) ==
  LET back == {i \in DOMAIN objects : \E j \in DOMAIN objects \ {i} :
                 KindOf(objects[j]) \in Texts \union {"image"} /\ IsBackdrop(objects[i], objects[j])}
      moved == {i \in back : \E j \in 1..(i - 1) : KindOf(objects[j]) # "image"}
      order == InKeyOrder([i \in DOMAIN objects |-> IF i \in moved THEN -i ELSE i])
  IN  IF moved = {} THEN objects ELSE [k \in DOMAIN order |-> objects[order[k]]]

-----------------------------------------------------------------------------
(* Text that always prints is nudged off the text it would print on.       *)
Movable(objects) ==
  {i \in DOMAIN objects : KindOf(objects[i]) \in Texts /\ objects[i].drawn /\ objects[i].conditions = {}}

Nudged(a, b) ==
  LET right == a.x + a.width - b.x + Gap
      down == a.y + a.height - b.y + Gap
      sameRow == 10 * Down(a, b) >= 6 * Min({a.height, b.height})
      stacked == a.x - b.x < 40 /\ b.x - a.x < 40
  IN  CASE ~Collide(a, b) -> b
        [] Collide(a, b) /\ ~stacked /\ (sameRow \/ right <= down) -> [b EXCEPT !.x = @ + right]
        [] OTHER -> [b EXCEPT !.y = @ + down]

(* Text comes by y and x; at one spot, in the order it had.                *)
Reading(objects, place) ==
  LET Before(i, j) == \/ objects[i].y < objects[j].y
                      \/ /\ objects[i].y = objects[j].y
                         /\ \/ objects[i].x < objects[j].x
                            \/ objects[i].x = objects[j].x /\ place[i] < place[j]
  IN  [j \in DOMAIN place |-> Cardinality({i \in DOMAIN place : Before(i, j)})]

(* One sweep over the pairs in the order they had when it began: the text  *)
(* at places a < b is looked at after a * m + b steps.                     *)
Looked(now, due) ==
  IF due = {} THEN now
  ELSE LET p == CHOOSE p \in due : TRUE
       IN  [now EXCEPT ![p[2]] = Nudged(now[p[1]], @)]

Sweep(objects, place) ==
  LET m == Cardinality(DOMAIN place)
      Due(t) == {p \in (DOMAIN place) \X (DOMAIN place) :
                   place[p[1]] < place[p[2]] /\ place[p[1]] * m + place[p[2]] = t}
      after[t \in 0..(m * m)] == IF t = 0 THEN objects ELSE Looked(after[t - 1], Due(t))
  IN  after[m * m]

Sweeps == 4
Deoverlapped(objects) ==
  LET first == Reading(objects, [i \in Movable(objects) |-> i])
      after[n \in 0..Sweeps] ==
        IF n = 0 THEN [objects |-> objects, place |-> first]
        ELSE LET before == after[n - 1]
                 swept == Sweep(before.objects, before.place)
             IN  IF swept = before.objects THEN before
                 ELSE [objects |-> swept, place |-> Reading(swept, before.place)]
  IN  after[Sweeps].objects

-----------------------------------------------------------------------------
(* A band wider than the page is scaled as a whole; a box lower than its   *)
(* font grows; the band grows with what was nudged or grown.               *)
Extent(objects) == Max({0} \union {o.x + o.width : o \in Range(objects)})
Scaled(objects, width) ==
  LET extent == Extent(objects)
  IN  IF extent <= width THEN objects
      ELSE [i \in DOMAIN objects |-> [objects[i] EXCEPT !.x = Round(@ * width, extent),
                                                        !.width = Round(@ * width, extent)]]

Clips(o) == KindOf(o) \in {"label", "field"} /\ o.font > 0 /\ o.height > 0 /\ o.font + 20 > o.height
Grown(objects) ==
  [i \in DOMAIN objects |-> IF Clips(objects[i]) THEN [objects[i] EXCEPT !.height = objects[i].font + 20]
                            ELSE objects[i]]

(* Mutant of Fitted: the band is scaled before its text is nudged apart.   *)
FittedThenNudged(s, width) ==
  LET nudged == Deoverlapped(Scaled(PromoteBackdrops(s.objects), width))
      grown == Grown(nudged)
      bottom == Max({o.y + o.height : o \in Range(grown)} \union {0})
  IN  IF s.suppressed THEN s ELSE [s EXCEPT !.objects = grown, !.height = Max({@, bottom})]

Fitted(s, width) ==
  LET promoted == PromoteBackdrops(s.objects)
      nudged == Deoverlapped(promoted)
      scaled == Scaled(nudged, width)
      grown == Grown(scaled)
      bottom == Max({o.y + o.height : o \in Range(grown)} \union {0})
      touched == nudged # promoted \/ grown # scaled
  IN  IF s.suppressed THEN s
      ELSE [s EXCEPT !.objects = grown, !.height = IF touched THEN Max({@, bottom}) ELSE @]

-----------------------------------------------------------------------------
(* lint_layout, without what is only information.                          *)
Overprints(a, b) ==
  /\ Collide(a, b) /\ Area(a) > 0 /\ Area(b) > 0
  /\ ~IsBackdrop(a, b) /\ ~IsBackdrop(b, a)
  /\ a.conditions = {} \/ b.conditions = {}

Lint(s, width) ==
  LET prints == {i \in DOMAIN s.objects : s.objects[i].drawn}
      Finding(severity, code, Bad(_)) ==
        IF \E i \in prints : Bad(s.objects[i]) THEN {[severity |-> severity, code |-> code]} ELSE {}
      Negative(o) == o.x < 0 \/ o.y < 0
      Overflows(o) == o.x + o.width > width + 5
      LeavesBand(o) == o.y + o.height > s.height + 5 /\ ~o.grows /\ KindOf(o) \in Content
      Empty(o) == KindOf(o) = "chart" /\ o.is = "no value"
      overprinted == \E i, j \in prints : /\ i < j
                       /\ KindOf(s.objects[i]) \in Content /\ KindOf(s.objects[j]) \in Content
                       /\ Overprints(s.objects[i], s.objects[j])
  IN  IF s.suppressed THEN {}
      ELSE UNION {Finding("error", "off-page", Negative), Finding("error", "page-overflow", Overflows),
                  Finding("warning", "band-overflow", LeavesBand), Finding("warning", "font-clip", Clips),
                  Finding("error", "chart-columns", Empty),
                  IF overprinted THEN {[severity |-> "warning", code |-> "overlap"]} ELSE {}}
=============================================================================

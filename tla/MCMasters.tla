------------------------------ MODULE MCMasters -------------------------------
(* One plant: two made items and a bought one, each kind of record twice, and *)
(* the changes that may meet on them.                                         *)
EXTENDS Masters, TLC

CONSTANTS unit, crate, fg, sub, rm, profile, spare, setting, bought, day, night,
          press, oven, steel, scrap, v1, v2, r1, r2, act, slot1, slot2, api, none

Key(i, n) == [item |-> i, name |-> n]
Rec(uses, span, flag) == [active |-> TRUE, uses |-> uses, span |-> span, flag |-> flag]
To(k, uses, span, flag) == [key |-> k, to |-> Rec(uses, span, flag)]
Off(c) == [c EXCEPT !.to.active = FALSE]

MCBoms == {Key(fg, v1), Key(fg, v2), Key(sub, v1)}
MCRoutings == {Key(fg, r1), Key(fg, r2), Key(fg, act)}
MCSources == {Key(rm, steel), Key(rm, scrap)}

Start == {To(unit, {}, {}, FALSE), To(fg, {unit}, {}, TRUE), To(sub, {unit}, {}, TRUE),
          To(rm, {unit}, {}, FALSE), To(profile, {}, {}, FALSE),
          To(setting, {sub, profile}, {}, TRUE), To(day, {}, {}, TRUE),
          To(press, {day}, {}, FALSE), To(Key(fg, v1), {sub}, 1..2, FALSE),
          To(Key(fg, r1), {press}, 1..2, FALSE), To(Key(rm, steel), {unit}, {}, TRUE)}

MCInitially ==
  [k \in Keys |-> IF \E c \in Start : c.key = k THEN (CHOOSE c \in Start : c.key = k).to ELSE none]

V1Ends == To(Key(fg, v1), {sub}, {1}, FALSE)
V1OfRm == To(Key(fg, v1), {rm}, {1}, FALSE)
V2 == To(Key(fg, v2), {sub}, 2..3, FALSE)
V2Later == To(Key(fg, v2), {rm}, {3}, FALSE)
R2 == To(Key(fg, r2), {press}, 2..3, FALSE)
R2Later == To(Key(fg, r2), {press}, {3}, FALSE)
SubOfRm == To(Key(sub, v1), {rm}, {1}, FALSE)
SubOfFg == To(Key(sub, v1), {fg}, {1}, FALSE)
Scrap(p) == To(Key(rm, scrap), {unit}, {}, p)

New == {To(crate, {}, {}, FALSE), To(spare, {}, {}, FALSE), To(bought, {rm, profile}, {}, TRUE),
        To(oven, {day}, {}, FALSE)}

MCAsked ==
  Start \cup New \cup {Off(c) : c \in {x \in Start : x.key \notin {fg, sub}}}
    \cup {To(setting, {sub, profile}, {}, FALSE), To(day, {}, {}, FALSE)}
    \cup {To(night, {}, {}, p) : p \in BOOLEAN} \cup {Off(To(night, {}, {}, TRUE))}
    \cup {V1Ends, V1OfRm, V2, V2Later, R2, R2Later, SubOfRm, SubOfFg, Scrap(TRUE), Off(Scrap(FALSE))}

MCImports ==
  {{To(rm, {unit}, {}, FALSE)}, {To(setting, {sub, profile}, {}, TRUE)},
   {To(press, {day}, {}, FALSE)}, {R2}, {V2}, {V1Ends, V2}, {V1Ends, V2Later},
   {V2, SubOfFg}, {V1OfRm, SubOfFg}, {V1Ends, SubOfRm}, {SubOfFg}, {Scrap(TRUE)},
   {To(Key(rm, steel), {unit}, {}, TRUE), Scrap(TRUE)}}

Symmetry == Permutations({slot1, slot2})
=============================================================================

------------------------------- MODULE Masters --------------------------------
(***************************************************************************)
(* The records a plan is computed from and the references between them:    *)
(* units, items, sources, buffer profiles and settings, calendars,         *)
(* resources, BOMs and routings of one plant, changed by people            *)
(* (availability, masters, planning and plant-model controllers) and by    *)
(* files (the commit of an import in imports.ts).                          *)
(*                                                                         *)
(* A change is checked against what is committed and then written, in one  *)
(* transaction whose locks keep no other check from passing.  The handlers *)
(* of the API exclude each other by the lock of the company; the worker's  *)
(* imports do not take it.  A screen that is no longer up to date is refused *)
(* (sameVersion), so that a person's change is always one of the record as *)
(* it is; names, quantities, times and rights are left out.                *)
(* One writer of routings checks nothing: the correction of a cycle time   *)
(* (execution.controller.ts, execution-db.mjs).                            *)
(***************************************************************************)
EXTENDS Naturals, FiniteSets

CONSTANTS
  Units, Items, Profiles, Settings, Calendars, Resources,  \* keys of records
  Sources, Boms, Routings, \* keys [item, name] of what belongs to an item
  Days,           \* bound: the days documents are effective on
  Asked,          \* changes people ask for: [key, to]
  Imports,        \* files: sets of changes
  Slots,          \* worker slots
  Api,            \* the handler that holds the lock of the company
  None,           \* no record; no open transaction
  Initially,      \* the records at the start
  MaxChanges      \* bound: changes begun

Documents == Boms \cup Routings
Keys == Units \cup Items \cup Profiles \cup Settings \cup Calendars
          \cup Resources \cup Sources \cup Documents
Actors == Slots \cup {Api}

\* uses: the records it refers to; span: the days a document is effective on;
\* flag: an item is made, a setting buffers, a source is the preferred one, a
\* calendar is the default of the plant.
Records == [active : BOOLEAN, uses : SUBSET Keys, span : SUBSET Days, flag : BOOLEAN]
Changes == Asked \cup (UNION Imports)

\* The keys of each kind are those of a table.
ASSUME KindsAssumption ==
  /\ Units \cap (Items \cup Profiles \cup Settings \cup Calendars \cup Resources \cup Sources \cup Documents) = {}
  /\ Items \cap (Profiles \cup Settings \cup Calendars \cup Resources \cup Sources \cup Documents) = {}
  /\ Profiles \cap (Settings \cup Calendars \cup Resources \cup Sources \cup Documents) = {}
  /\ Settings \cap (Calendars \cup Resources \cup Sources \cup Documents) = {}
  /\ Calendars \cap (Resources \cup Sources \cup Documents) = {}
  /\ Resources \cap (Sources \cup Documents) = {}
  /\ Sources \cap Documents = {} /\ Boms \cap Routings = {}

ASSUME MastersAssumption ==
  /\ MaxChanges \in Nat
  /\ Days \subseteq Nat
  /\ Api \notin Slots
  /\ None \notin Records
  /\ Initially \in [Keys -> Records \cup {None}]
  /\ Changes \subseteq [key : Keys, to : Records]
  /\ \A F \in Imports : \A c \in F : c.to.active  \* a file has no column for the status

VARIABLES
  rec,      \* what is committed
  tx,       \* per actor: what it has checked and will write
  changes,  \* changes begun
  late,     \* written although what the check had read was changed meanwhile (history)
  unchecked \* pairs of revisions that a correction put side by side uncompared (history)

masters == <<rec, tx, changes, late, unchecked>>

InitMasters ==
  /\ rec = Initially
  /\ tx = [a \in Actors |-> None]
  /\ changes = 0
  /\ late = {}
  /\ unchecked = {}

Exists(k) == rec[k] # None
Active(k) == Exists(k) /\ rec[k].active

KeysOf(C) == {c.key : c \in C}

\* Two sources, two BOMs or two routings of an item; two calendars of the plant.
Rival(k, j) ==
  /\ k # j
  /\ \/ {k, j} \subseteq Calendars
     \/ \E S \in {Sources, Boms, Routings} : {k, j} \subseteq S /\ k.item = j.item

(* ------------------------------- checks -------------------------------- *)

\* What a person may not deactivate while something active needs it.
UsersOf(k) ==
  CASE k \in Units -> Items \cup Sources
    [] k \in Profiles -> Settings
    [] k \in Resources -> Routings
    [] OTHER -> {}

\* A setting that does not buffer needs no profile.
Needs(u, k) == Active(u) /\ k \in rec[u].uses /\ (u \in Settings => rec[u].flag)
Deactivates(c) == Active(c.key) /\ ~c.to.active
InUse(k) == \E u \in UsersOf(k) : Needs(u, k)

\* Mutant: a reference is only looked up.
ReferencesFound(c) == \A u \in c.to.uses : Exists(u)

\* What a record refers to exists and is active, even when the record itself is
\* being deactivated.
ReferencesActive(c) == \A u \in c.to.uses : Active(u)

\* A source is one of a bought item; the rows of a file mark one source of an
\* item as preferred at most.
SourcingRules(c, C) ==
  /\ ~rec[c.key.item].flag
  /\ c.to.flag => \A o \in C : o.key.item = c.key.item /\ o.to.flag => o = c

ResolveReferences(c, C) ==
  /\ ReferencesActive(c)
  /\ c.key \in Sources => Active(c.key.item) /\ SourcingRules(c, C)

\* A document is one of a made item.
OfMadeItem(c) == Active(c.key.item) /\ rec[c.key.item].flag

\* Mutant: only a new revision is compared.
OverlapsNew(c, C) ==
  /\ c.to.active /\ ~Exists(c.key)
  /\ \/ \E d \in Documents : Rival(d, c.key) /\ Active(d) /\ rec[d].span \cap c.to.span # {}
     \/ \E o \in C : Rival(o.key, c.key) /\ o.to.span \cap c.to.span # {}

\* rangesOverlap with an active revision that is committed, or with another
\* document of the file; the committed dates count even when the file ends them.
Overlaps(c, C) ==
  /\ c.to.active
  /\ \/ \E d \in Documents : Rival(d, c.key) /\ Active(d) /\ rec[d].span \cap c.to.span # {}
     \/ \E o \in C : Rival(o.key, c.key) /\ o.to.span \cap c.to.span # {}

\* The components of all active BOMs, the BOMs of C as they will be.
Edges(C) ==
  (UNION {{b.item} \X rec[b].uses : b \in {x \in Boms \ KeysOf(C) : Active(x)}})
    \cup (UNION {{c.key.item} \X c.to.uses : c \in {x \in C : x.to.active}})

\* Sets of items each of which is a component of one of them and contains one.
Loops(E) ==
  {S \in (SUBSET Items) \ {{}} :
     \A i \in S : (\E j \in S : <<i, j>> \in E) /\ (\E j \in S : <<j, i>> \in E)}

\* What a company starts from keeps what is promised below: no records, or those
\* that an earlier history left.
ASSUME InitiallyAssumption ==
  LET was(k) == Initially[k] # None /\ Initially[k].active
  IN  /\ Loops(UNION {{b.item} \X Initially[b].uses : b \in {x \in Boms : was(x)}}) = {}
      /\ \A d, e \in Documents :
           Rival(d, e) /\ was(d) /\ was(e) => Initially[d].span \cap Initially[e].span = {}
      /\ \A k \in Units \cup Profiles \cup Resources : Initially[k] # None /\ ~was(k) =>
           \A u \in UsersOf(k) :
              was(u) /\ k \in Initially[u].uses => u \in Settings /\ ~Initially[u].flag

\* Mutant: every BOM of a file is checked on its own.
LoopRefusesAlone(C) ==
  \E c \in C : LET found == Loops(Edges({c}))
               IN  found # {} /\ \A S \in found : c.key.item \in S

\* findCycle reports the first loop it meets, and only the BOMs of the items of
\* that loop are refused.
LoopRefuses(C) ==
  LET found == Loops(Edges(C))
  IN  found # {} /\ \A S \in found : S \cap {c.key.item : c \in C} # {}

CheckBoms(C) ==
  /\ \A c \in C : OfMadeItem(c) /\ ReferencesActive(c) /\ ~Overlaps(c, C)
  /\ ~LoopRefuses(C)

CheckRoutings(C) == \A c \in C : OfMadeItem(c) /\ ReferencesActive(c) /\ ~Overlaps(c, C)

CheckBufferSettings(C) == \A c \in C : ReferencesActive(c)

CheckResources(C) == \A c \in C : ReferencesActive(c)

\* The default calendar of a plant stays active and the default until another
\* one becomes it.
DefaultStays(c) == rec[c.key].flag => c.to.flag /\ c.to.active

\* What the checks of a set of changes read.
ReadBy(C) ==
  KeysOf(C) \cup (UNION {c.to.uses \cup UsersOf(c.key) : c \in C})
    \cup {c.key.item : c \in {x \in C : x.key \in Sources \cup Documents}}
    \cup {k \in Documents : \E c \in C : Rival(k, c.key)}
    \cup (IF KeysOf(C) \cap Boms = {} THEN {} ELSE Boms)

(* ------------------------------ requests ------------------------------- *)

\* The check of C has passed, W will be written.
Begin(a, C, W) ==
  /\ tx[a] = None /\ changes < MaxChanges
  /\ tx' = [tx EXCEPT ![a] = [to |-> W, new |-> {k \in KeysOf(W) : ~Exists(k)},
                              read |-> ReadBy(C), overtaken |-> FALSE]]
  /\ changes' = changes + 1
  /\ UNCHANGED <<rec, late, unchecked>>

Ask(c) == Begin(Api, {c}, {c})
Creates(c, kind) == c.key \in kind /\ ~Exists(c.key) /\ c.to.active
Edits(c, kind) == c.key \in kind /\ Exists(c.key)

CreateUnit(c) == Creates(c, Units) /\ Ask(c)
EditUnit(c) == Edits(c, Units) /\ ~(Deactivates(c) /\ InUse(c.key)) /\ Ask(c)

CreateMaster(c) == Creates(c, Items \cup Sources) /\ ResolveReferences(c, {c}) /\ Ask(c)

\* Deactivation is always allowed: only the status changes.
EditMaster(c) ==
  /\ Edits(c, Items \cup Sources)
  /\ IF c.to.active THEN ResolveReferences(c, {c}) /\ Ask(c)
     ELSE Begin(Api, {c}, {[c EXCEPT !.to = [rec[c.key] EXCEPT !.active = FALSE]]})

CreateProfile(c) == Creates(c, Profiles) /\ Ask(c)
EditProfile(c) == Edits(c, Profiles) /\ ~(Deactivates(c) /\ InUse(c.key)) /\ Ask(c)
CreateSetting(c) == Creates(c, Settings) /\ CheckBufferSettings({c}) /\ Ask(c)
EditSetting(c) == Edits(c, Settings) /\ CheckBufferSettings({c}) /\ Ask(c)

\* The first calendar of a plant becomes its default.
CreateCalendar(c) ==
  LET first == \A k \in Calendars : ~(Active(k) /\ rec[k].flag)
  IN  Creates(c, Calendars) /\ Begin(Api, {c}, {[c EXCEPT !.to.flag = @ \/ first]})

EditCalendar(c) == Edits(c, Calendars) /\ DefaultStays(c) /\ Ask(c)

CreateResource(c) == Creates(c, Resources) /\ CheckResources({c}) /\ Ask(c)
EditResource(c) ==
  /\ Edits(c, Resources)
  /\ ~(Deactivates(c) /\ InUse(c.key)) /\ CheckResources({c})
  /\ Ask(c)

CreateBom(c) == Creates(c, Boms) /\ CheckBoms({c}) /\ Ask(c)
EditBom(c) == Edits(c, Boms) /\ CheckBoms({c}) /\ Ask(c)
CreateRouting(c) == Creates(c, Routings) /\ CheckRoutings({c}) /\ Ask(c)
EditRouting(c) == Edits(c, Routings) /\ CheckRoutings({c}) /\ Ask(c)

(* ------------------------------- imports ------------------------------- *)

\* The commit of a batch checks its rows once more against what is committed
\* now; a file is of one kind.
Of(F, kind) == KeysOf(F) \subseteq kind

ImportMasters(s, F) ==
  /\ Of(F, Items) \/ Of(F, Sources)
  /\ \A c \in F : ResolveReferences(c, F)
  /\ Begin(s, F, F)

\* Rows that change nothing are not written; the status of a resource is not
\* compared.
SameSetting(c) == Active(c.key) /\ rec[c.key].uses = c.to.uses /\ rec[c.key].flag = c.to.flag
SameResource(c) == Exists(c.key) /\ rec[c.key].uses = c.to.uses

ImportSettings(s, F) ==
  /\ Of(F, Settings) /\ CheckBufferSettings(F)
  /\ Begin(s, F, {c \in F : ~SameSetting(c)})

ImportPlantModel(s, F) ==
  \/ Of(F, Resources) /\ CheckResources(F) /\ Begin(s, F, {c \in F : ~SameResource(c)})
  \/ Of(F, Boms) /\ CheckBoms(F) /\ Begin(s, F, F)
  \/ Of(F, Routings) /\ CheckRoutings(F) /\ Begin(s, F, F)

(* -------------------------------- writes ------------------------------- *)

\* upsertMasters and writeBufferSettings update a record that has appeared
\* since the check (ON CONFLICT); a second row of the other kinds is refused.
Upserted == Items \cup Sources \cup Settings

\* A file leaves the status of items and sources as it is.
Written(c, a) ==
  IF a # Api /\ c.key \in Items \cup Sources /\ Exists(c.key)
  THEN [c.to EXCEPT !.active = rec[c.key].active] ELSE c.to

\* An active default calendar, and a source that is marked as preferred, take
\* the mark from the others.
LosesMark(k, W) ==
  /\ Exists(k) /\ k \notin KeysOf(W)
  /\ \E c \in W : c.to.flag /\ c.to.active /\ c.key \in Calendars \cup Sources /\ Rival(c.key, k)

Commit(a) ==
  LET W == tx[a].to
      touched == KeysOf(W) \cup {k \in Keys : LosesMark(k, W)}
  IN  /\ tx[a] # None
      /\ \A k \in tx[a].new \ Upserted : ~Exists(k)
      /\ rec' = [k \in Keys |->
                   IF k \in KeysOf(W) THEN Written(CHOOSE c \in W : c.key = k, a)
                   ELSE IF LosesMark(k, W) THEN [rec[k] EXCEPT !.flag = FALSE]
                   ELSE rec[k]]
      /\ late' = IF tx[a].overtaken THEN late \cup KeysOf(W) ELSE late
      /\ unchecked' = {p \in unchecked : p \cap KeysOf(W) = {}}
      /\ tx' = [b \in Actors |->
                  IF b = a \/ tx[b] = None THEN None
                  ELSE [tx[b] EXCEPT !.overtaken = @ \/ tx[b].read \cap touched # {}]]
      /\ UNCHANGED changes

\* A unique index refuses the write, or the process dies: nothing is kept.
Abort(a) ==
  /\ tx[a] # None
  /\ tx' = [tx EXCEPT ![a] = None]
  /\ UNCHANGED <<rec, changes, late, unchecked>>

(* ------------------------ corrected cycle times ------------------------ *)

\* adoptCycleTime: a revision that is effective today ends yesterday, and a copy
\* with corrected times is effective from today on, without an end. It is
\* compared with no other revision; only a name that exists, or an end before
\* the beginning, is refused. Nothing it reads is looked at again, so it is one step.
AdoptCycleTime(o, n, today) ==
  /\ tx[Api] = None /\ changes < MaxChanges
  /\ Rival(o, n) /\ Active(o) /\ ~Exists(n)
  /\ today \in rec[o].span /\ \E d \in rec[o].span : d < today
  /\ rec' = [rec EXCEPT ![o].span = {d \in @ : d < today},
                        ![n] = [rec[o] EXCEPT !.span = {d \in Days : d >= today}]]
  /\ unchecked' = unchecked \cup
       {{n, d} : d \in {e \in Routings \ {o} : Rival(e, n) /\ Active(e)}}
  /\ late' = IF o \in late THEN late \cup {n} ELSE late
  /\ tx' = [b \in Actors |->
              IF tx[b] = None THEN None
              ELSE [tx[b] EXCEPT !.overtaken = @ \/ tx[b].read \cap {o, n} # {}]]
  /\ changes' = changes + 1

NextMasters ==
  \/ \E c \in Asked :
       \/ CreateUnit(c) \/ EditUnit(c) \/ CreateMaster(c) \/ EditMaster(c)
       \/ CreateProfile(c) \/ EditProfile(c) \/ CreateSetting(c) \/ EditSetting(c)
       \/ CreateCalendar(c) \/ EditCalendar(c) \/ CreateResource(c) \/ EditResource(c)
       \/ CreateBom(c) \/ EditBom(c) \/ CreateRouting(c) \/ EditRouting(c)
  \/ \E s \in Slots, F \in Imports :
       ImportMasters(s, F) \/ ImportSettings(s, F) \/ ImportPlantModel(s, F)
  \/ \E a \in Actors : Commit(a) \/ Abort(a)
  \/ \E o, n \in Routings, today \in Days : AdoptCycleTime(o, n, today)

SpecMasters == InitMasters /\ [][NextMasters]_masters

(* ------------------------------ properties ----------------------------- *)

\* As long as no BOM was written behind the back of its check, no item
\* contains itself through the components of the active BOMs: checkBoms sees
\* the whole graph, with every document of the file in its place.
NoLoop == late \cap Boms = {} => Loops(Edges({})) = {}

\* Two active revisions of an item's BOM or routing never share a day, in
\* whatever order they are created, ended and reactivated by people and files and
\* copied by corrections of the cycle time, unless one of them was written behind
\* the back of its check, or is a correction and the other one was active beside
\* the revision that it ended: adoptCycleTime does not compare these.
RevisionsApart ==
  \A d, e \in Documents \ late :
    /\ Rival(d, e) /\ Active(d) /\ Active(e)
    /\ {d, e} \notin unchecked
    => rec[d].span \cap rec[e].span = {}

\* What is in use is active: no active item or source is counted in an inactive
\* unit, no buffered item has an inactive profile and no active routing an
\* inactive resource, whether it was the user that came or the record that
\* went; the sole exception is a check that was overtaken.
InUseIsActive ==
  \A k \in (Units \cup Profiles \cup Resources) \ late :
    Exists(k) /\ ~Active(k) => \A u \in UsersOf(k) \ late : ~Needs(u, k)

=============================================================================

------------------------------- MODULE Stripe -------------------------------
(***************************************************************************)
(* S.Stripe of stripe/stripe.go: which new copies to make of the chunks of *)
(* a group, given the stores that hold each already (got), the stores that *)
(* can take more (dests), a number of copies of each (min) and how many    *)
(* chunks are to be on sets of stores of their own (excl).                 *)
(*                                                                         *)
(* Go iterates maps in any order.  got ranges over every assignment, so    *)
(* the items are numbered in the order the first loop meets them; the old  *)
(* locations of an item come in any order.  The stores are numbered in the *)
(* order of the round robin (stripe/rr.go), from its cursor on.            *)
(***************************************************************************)
EXTENDS Placement, Sequences, Functions

CONSTANTS K,      \* number of items, the distinct chunks of a group
          L,      \* number of stores of the round robin
          Mins,   \* values of min
          Excls   \* values of excl

Item == 1 .. K
Loc  == 0 .. L - 1

ASSUME StripeAssumption ==
  /\ K \in Nat \ {0} /\ L \in Nat \ {0}
  /\ Mins \subseteq Nat /\ Excls \subseteq Nat

VARIABLES got, dests, min, excl,  \* arguments
          cur,                    \* RR.cur
          prios,                  \* how many items hold a location already
          res,                    \* result: locations of the items met so far
          pass, it,               \* the two loops
          old, seen,              \* what next() still has and has returned
          status                  \* "running", "ok" or "short" (ErrShort)

args == <<got, dests, min, excl>>
vars == <<args, cur, prios, res, pass, it, old, seen, status>>

Holders(l) == {i \in Item : l \in got[i]}

\* The locations of an item that no other item has exactly.
Exclusive(r) == {i \in DOMAIN r : \A j \in DOMAIN r \ {i} : r[j] # r[i]}

\* Mutation: an item whose locations are some other item's is counted too.
AllExclusives(r) == Cardinality({r[i] : i \in DOMAIN r})

Exclusives(r) == Cardinality(Exclusive(r))

\* S.Stripe stops asking for exclusivity at the number of items met so far.
Wanted(r) == IF excl > Len(r) THEN Len(r) ELSE excl

Without(f, x) == Restrict(f, DOMAIN f \ {x})

Init ==
  /\ got \in [Item -> SUBSET Loc]
  /\ dests \in SUBSET Loc
  /\ min \in Mins /\ excl \in Excls
  /\ cur = 0
  /\ prios = [l \in {d \in dests : Holders(d) # {}} |-> Cardinality(Holders(l))]
  /\ res = << {} >>
  /\ pass = 0 /\ it = 1
  /\ old = got[1] /\ seen = {}
  /\ status = "running"

-----------------------------------------------------------------------------
\* On to the next item, from the result r: res[it] is created if this is the
\* first pass; after the second one, what the items had is taken off.
Advance(r) ==
  \/ /\ it < K
     /\ it' = it + 1
     /\ res' = IF pass = 0 THEN Append(r, {}) ELSE r
     /\ old' = got[it + 1] /\ seen' = {}
     /\ UNCHANGED <<pass, status>>
  \/ /\ it = K /\ pass = 0
     /\ pass' = 1 /\ it' = 1
     /\ res' = r
     /\ old' = got[1] /\ seen' = {}
     /\ UNCHANGED status
  \/ /\ it = K /\ pass = 1
     /\ res' = [i \in Item |-> r[i] \ got[i]]
     /\ status' = "ok"
     /\ UNCHANGED <<pass, it, old, seen>>

\* The inner loop is not entered again: the item has min locations.
Full ==
  /\ status = "running"
  /\ Cardinality(res[it]) >= min
  /\ Advance(res)
  /\ UNCHANGED <<args, cur, prios>>

\* Go on with the item, having tried what there was to try.
Keep(r, o, s) == /\ res' = r /\ old' = o /\ seen' = s
                 /\ UNCHANGED <<pass, it, status>>

\* Mutation: a location outside dests is as good as another.
PlaceAnywhere(l, o, s) ==
  LET r == [res EXCEPT ![it] = @ \cup {l}]
  IN  IF l \in res[it]
      THEN Keep(res, o, s)
      ELSE IF Exclusives(r) >= Wanted(res)
      THEN Keep(r, o, s)
      ELSE IF pass = 0 THEN Advance(res) ELSE Keep(res, o, s)

\* The end of the inner loop's body, with o and s left to next(): l is added
\* unless that leaves too few exclusive items, which ends the first pass's
\* attempts for the item.
Place(l, o, s) ==
  LET r == [res EXCEPT ![it] = @ \cup {l}]
  IN  IF l \in res[it] \/ l \notin dests
      THEN Keep(res, o, s)
      ELSE IF Exclusives(r) >= Wanted(res)
      THEN Keep(r, o, s)
      ELSE IF pass = 0 THEN Advance(res) ELSE Keep(res, o, s)

\* Mutation: next() does not begin with the locations the item has.
ReuseNone ==
  /\ status = "running"
  /\ Cardinality(res[it]) < min
  /\ old # {} /\ old' = {}
  /\ UNCHANGED <<args, cur, prios, res, pass, it, seen, status>>

\* One iteration in which next() returns a location the item has already.
Reuse ==
  /\ status = "running"
  /\ Cardinality(res[it]) < min
  /\ \E l \in old : Place(l, old \ {l}, seen)
  /\ UNCHANGED <<args, cur, prios>>

\* One iteration in which next() draws from the round robin.  A location that
\* other items have is passed over as many times as it has holders, ...
Draw ==
  /\ status = "running"
  /\ Cardinality(res[it]) < min
  /\ old = {}
  /\ cur \notin seen
  /\ cur' = (cur + 1) % L
  /\ IF cur \in got[it] \/ cur \notin DOMAIN prios
     THEN Place(cur, {}, seen \cup {cur}) /\ UNCHANGED prios
     ELSE IF prios[cur] > 0
     THEN Keep(res, {}, seen) /\ prios' = [prios EXCEPT ![cur] = @ - 1]
     ELSE Place(cur, {}, seen \cup {cur}) /\ prios' = Without(prios, cur)
  /\ UNCHANGED args

\* Mutation: a location drawn twice ends the call at once.
ExhaustedEarly ==
  /\ status = "running"
  /\ Cardinality(res[it]) < min
  /\ old = {}
  /\ cur \in seen
  /\ cur' = (cur + 1) % L
  /\ prios' = Without(prios, cur)
  /\ status' = "short"
  /\ UNCHANGED <<args, res, pass, it, old, seen>>

\* Mutation: a location drawn twice is still waited for.
ExhaustedNever ==
  /\ status = "running"
  /\ Cardinality(res[it]) < min
  /\ old = {}
  /\ cur \in seen
  /\ cur' = (cur + 1) % L
  /\ status' = IF DOMAIN prios \subseteq {cur} THEN "short" ELSE "running"
  /\ UNCHANGED <<args, prios, res, pass, it, old, seen>>

\* ... and one drawn twice is no longer waited for: ErrShort when none is.
Exhausted ==
  /\ status = "running"
  /\ Cardinality(res[it]) < min
  /\ old = {}
  /\ cur \in seen
  /\ cur' = (cur + 1) % L
  /\ prios' = Without(prios, cur)
  /\ status' = IF DOMAIN prios \subseteq {cur} THEN "short" ELSE "running"
  /\ UNCHANGED <<args, res, pass, it, old, seen>>

Returned == status # "running" /\ UNCHANGED vars

Next == Full \/ Reuse \/ Draw \/ Exhausted \/ Returned

Spec == Init /\ [][Next]_vars

\* Stripe is a loop: it goes on until it returns.
FairSpec == Spec /\ WF_vars(Next)
-----------------------------------------------------------------------------
\* Types.
TypeOK ==
  /\ got \in [Item -> SUBSET Loc] /\ dests \in SUBSET Loc
  /\ min \in Mins /\ excl \in Excls
  /\ cur \in Loc
  /\ DOMAIN prios \subseteq dests /\ \A l \in DOMAIN prios : prios[l] \in Nat
  /\ res \in Seq(SUBSET Loc)
  /\ pass \in {0, 1} /\ it \in Item
  /\ old \in SUBSET Loc /\ seen \in SUBSET Loc
  /\ status \in {"running", "ok", "short"}

\* The copies of an item that can be counted on once the new ones are made.
Copies(i) == res[i] \cup (got[i] \cap dests)

\* A successful Stripe leaves every item with min copies at least on stores
\* that are still there, makes new ones only there, and never makes one that
\* exists.
Enough ==
  status = "ok" =>
    \A i \in Item : /\ Cardinality(Copies(i)) >= min
                    /\ res[i] \subseteq dests \ got[i]

\* What stripe(min excl ...) is for: after a success the loss of any one store
\* loses at most one item of the group, or as many as were not asked to be
\* exclusive, even where copies made before and new ones mix.
LossBound ==
  status = "ok" /\ min > 0 =>
    \A l \in Loc :
      LET lost == Cardinality({i \in Item : Copies(i) \subseteq {l}})
      IN  lost <= 1 \/ lost <= K - excl

\* What a restore needs of it, where parity makes up for n shards of a group: of
\* the shards listed later, f, with these copies at least, no store has more alone.
LossCovered(n) ==
  status = "ok" /\ min > 0 /\ K - excl <= n =>
    \A f \in [Item -> SUBSET Loc] :
      (\A i \in Item : Copies(i) \subseteq f[i]) =>
        \A l \in Loc : Cardinality(OnlyOn(f, Item, l)) <= n

\* Without exclusivity (mincopies) nothing is copied needlessly: exactly the
\* missing copies are made.
NothingNeedless ==
  status = "ok" /\ excl = 0 =>
    \A i \in Item :
      LET have == Cardinality(got[i] \cap dests)
      IN  Cardinality(res[i]) = IF have >= min THEN 0 ELSE min - have

\* Without exclusivity (mincopies) ErrShort is given only when there are fewer
\* stores than copies to make, whatever stores have been passed over.
ShortOnlyIfFew ==
  status = "short" /\ excl = 0 => Cardinality(dests) < min

\* What mincopies is asked for, by stripeP.Procs and in Resume: one of the plans
\* for the copies that are lacking, if there are stores enough for one.
MakesCopyPlan ==
  excl = 0 =>
    /\ status = "ok" => /\ res \in CopyPlans(Item, got, dests, min)
                       /\ Cardinality(dests) >= min
    /\ status = "short" => Cardinality(dests) < min

\* A first backup, with a store for each copy.
Fresh == (\A i \in Item : got[i] = {}) /\ Cardinality(dests) >= K * min

\* ErrShort is not given lightly: with exclusive chunks as well never to a first
\* backup that has a store for each copy; and for one copy of each chunk of a group
\* of three as README has it only when the stores are too few for the exclusive
\* chunks and the others.  Larger groups are not as lucky: the second pass counts
\* the chunks that have no store yet as alike.
ShortJustified ==
  /\ ShortOnlyIfFew
  /\ status = "short" => ~Fresh
  /\ status = "short" /\ min = 1 /\ K <= 3 =>
       Cardinality(dests) < (IF excl < K THEN excl + 1 ELSE K)

\* In a first backup with a store for each copy of a group, of whatever size, each
\* copy gets one to itself, whatever excl.
FreshServed ==
  Fresh => /\ status # "short"
           /\ \A i, j \in 1 .. Len(res) : i # j => res[i] \cap res[j] = {}

\* Whatever the old copies, the passing over of busy stores comes to an end.
Terminates == <>(status # "running")

\* What makes the safety properties inductive, while the call runs.  An item
\* is met in the first pass, never has too many locations, and has enough once
\* the second pass is over it ...
ResInv ==
  /\ Len(res) = IF pass = 0 THEN it ELSE K
  /\ \A i \in 1 .. Len(res) : /\ res[i] \subseteq dests
                              /\ Cardinality(res[i]) <= min
  /\ pass = 1 => \A i \in 1 .. it - 1 : Cardinality(res[i]) = min

\* ... every addition made since the last item was met, the first one to that
\* item included, has left enough exclusive items ...
ExclInv == Len(res) = K /\ res[K] # {} => Exclusives(res) >= Wanted(res)

\* ... and without exclusivity what the item has comes first.
OldInv ==
  excl = 0 =>
    /\ got[it] \cap dests \subseteq res[it] \cup old
    /\ \A i \in 1 .. Len(res) :
         res[i] \ got[i] # {} => got[i] \cap dests \subseteq res[i]

\* Is y among the locations drawn from x on, up to the cursor of the round robin?
Passed(x, y) == IF x < cur THEN x <= y /\ y < cur ELSE x <= y \/ y < cur

\* What next() has gone through since it returned x, it has returned too or still
\* waits for; and without exclusivity what it has returned was taken.
SeenInv ==
  status = "running" =>
    /\ \A x \in seen, y \in Loc : Passed(x, y) => y \in seen \cup DOMAIN prios
    /\ excl = 0 => seen \cap dests \subseteq res[it]

\* With one copy of each chunk: the first item is never refused a location, ...
FirstServed == it > 1 \/ pass = 1 => res[1] # {}

\* ... an item that has none was refused all those drawn that can take it, and
\* is tried again only in the second pass, ...
RefusedAll ==
  res[it] = {} =>
    \A l \in seen \cap dests :
      pass = 1 /\ Exclusives([res EXCEPT ![it] = {l}]) < Wanted(res)

\* ... and in groups of three two exclusive items leave no two on one location.
NoneShared ==
  K <= 3 /\ excl >= 2 =>
    \A i, j \in 1 .. Len(res) : res[i] = res[j] /\ res[i] # {} => i = j

FewInv == status = "running" /\ min = 1 /\ excl > 0 =>
            FirstServed /\ RefusedAll /\ NoneShared

\* A first backup draws each store once: either all items are served, or the stores
\* up to the cursor hold a copy each.
FreshInv ==
  Fresh =>
    /\ DOMAIN prios = {} /\ old = {}
    /\ status = "running" =>
         \/ Len(res) = K /\ \A i \in Item : Cardinality(res[i]) >= min
         \/ /\ pass = 0 /\ \A l \in seen : l < cur
            /\ \A l \in Loc : l \in dests /\ l < cur <=> \E i \in 1 .. it : l \in res[i]
            /\ \A i \in 1 .. it - 1 : Cardinality(res[i]) >= min

IndInv == /\ TypeOK
          /\ status = "running" => old \subseteq got[it] /\ ResInv /\ ExclInv /\ OldInv
          /\ Enough /\ LossBound /\ NothingNeedless

PriosInv == \A l \in DOMAIN prios : prios[l] <= K

\* What is left to do: items in the two passes, then locations to return, to draw
\* and to pass over, then the way of the cursor to the next one of these.
ItemsLeft == {x \in {0, 1} \X Item :
                /\ status = "running"
                /\ x[1] > pass \/ (x[1] = pass /\ x[2] >= it)}

DrawsLeft == <<old, Loc \ seen,
               {x \in Loc \X (0 .. K) : x[1] \in DOMAIN prios /\ x[2] <= prios[x[1]]}>>

UpTo(x, y) == IF cur <= x THEN cur <= y /\ y <= x ELSE cur <= y \/ y <= x

Ahead == {x \in Loc : \A y \in Loc : UpTo(x, y) => y \in seen \ DOMAIN prios}

\* The loops cannot go on for ever: a step that does not get on with the items
\* uses up a location, and one that does neither moves the cursor towards one
\* that is waited for.
Shrinks ==
  \/ ItemsLeft' \subseteq ItemsLeft /\ ItemsLeft' # ItemsLeft
  \/ /\ ItemsLeft' = ItemsLeft
     /\ \/ DrawsLeft' # DrawsLeft /\ \A k \in 1 .. 3 : DrawsLeft'[k] \subseteq DrawsLeft[k]
        \/ DrawsLeft' = DrawsLeft /\ Ahead' \subseteq Ahead /\ Ahead' # Ahead
=============================================================================

------------------------------ MODULE TmpDedup ------------------------------
(***************************************************************************)
(* Temporary files shared by the commands that read them                   *)
(* (tmpdedup/man.go, dir.go), as procs.NewPathCmdIn uses them: the first   *)
(* of several concurrent users of a path creates the file, a goroutine of  *)
(* its own (the cleaner) waits for the last of them and removes it.  The   *)
(* program's end (cmd/main.go) waits for none of them.                     *)
(*                                                                         *)
(* The sync.WaitGroup of an entry is named after the user whose Get        *)
(* created it.  Its counter, and Man.wg's, are the sets of what they count.*)
(***************************************************************************)
EXTENDS Naturals

CONSTANTS User,    \* calls of pathCmdIn.process
          Path,    \* names of temporary files
          Nil,
          Faults   \* may writing a file fail

ASSUME TmpDedupAssumption == Nil \notin User /\ Faults \in BOOLEAN

VARIABLES wants,     \* the path of each user
          pc,        \* how far the users are
          ent,       \* the WaitGroup each user got
          created,   \* Man.created
          wg,        \* the WaitGroups: users counted
          cleaner,   \* how far the cleaner of each WaitGroup is
          running,   \* Man.wg: cleaners counted
          file,      \* the temporary files
          dir,       \* the directory, Dir.path
          end,       \* how far the program's end is
          panicked

programVars == <<dir, end, panicked>>
vars == <<wants, pc, ent, created, wg, cleaner, running, file, programVars>>

Init == /\ wants \in [User -> Path]
        /\ pc = [u \in User |-> "idle"]
        /\ ent = [u \in User |-> Nil]
        /\ created = [p \in Path |-> Nil]
        /\ wg = [u \in User |-> {}]
        /\ cleaner = [u \in User |-> "none"]
        /\ running = {}
        /\ file = [p \in Path |-> "none"]
        /\ dir = "there" /\ end = "no"
        /\ panicked = FALSE

\* The program goes on: it has neither crashed nor exited.
Up == end # "exited" /\ ~panicked

\* createdMu: held while a file is created.
Locked == \E u \in User : pc[u] = "creating"

-----------------------------------------------------------------------------
\* Mutation: a user that finds the file is not counted.
ShareUncounted(u) ==
  LET g == created[wants[u]]
  IN  /\ g # Nil
      /\ ent' = [ent EXCEPT ![u] = g]
      /\ pc' = [pc EXCEPT ![u] = "holding"]
      /\ UNCHANGED <<created, wg, cleaner, running, file>>

\* Man.Get of a path that is in the map.
Share(u) ==
  LET g == created[wants[u]]
  IN  /\ g # Nil
      /\ wg' = [wg EXCEPT ![g] = @ \cup {u}]
      /\ ent' = [ent EXCEPT ![u] = g]
      /\ pc' = [pc EXCEPT ![u] = "holding"]
      /\ UNCHANGED <<created, cleaner, running, file>>

\* Man.Get of a path that is not: create opens the file, with O_EXCL, ...
Create(u) ==
  /\ created[wants[u]] = Nil
  /\ file[wants[u]] = "none" /\ dir = "there"
  /\ file' = [file EXCEPT ![wants[u]] = "partial"]
  /\ pc' = [pc EXCEPT ![u] = "creating"]
  /\ UNCHANGED <<ent, created, wg, cleaner, running>>

\* Mutation: the entry is made before create's error is looked at.
OpenErrorKept(u) ==
  /\ created[wants[u]] = Nil
  /\ file[wants[u]] # "none" \/ dir = "gone" \/ Faults
  /\ pc' = [pc EXCEPT ![u] = "ended"]
  /\ created' = [created EXCEPT ![wants[u]] = u]
  /\ UNCHANGED <<ent, wg, cleaner, running, file>>

\* ... or cannot: the file exists, its directory does not, or any other error.
OpenError(u) ==
  /\ created[wants[u]] = Nil
  /\ file[wants[u]] # "none" \/ dir = "gone" \/ Faults
  /\ pc' = [pc EXCEPT ![u] = "ended"]
  /\ UNCHANGED <<ent, created, wg, cleaner, running, file>>

\* Man.Get, up to the end of the chunk's copy into the file.
Get(u) ==
  /\ Up /\ pc[u] = "idle" /\ ~Locked
  /\ Share(u) \/ Create(u) \/ OpenError(u)
  /\ UNCHANGED <<wants, programVars>>

\* Mutation: Man.wg does not count the cleaner.
CreatedUncounted(u) ==
  /\ Up /\ pc[u] = "creating"
  /\ file' = [file EXCEPT ![wants[u]] = "whole"]
  /\ created' = [created EXCEPT ![wants[u]] = u]
  /\ wg' = [wg EXCEPT ![u] = {u}]
  /\ ent' = [ent EXCEPT ![u] = u]
  /\ pc' = [pc EXCEPT ![u] = "holding"]
  /\ cleaner' = [cleaner EXCEPT ![u] = "started"]
  /\ UNCHANGED <<wants, running, programVars>>

\* The file is written: the cleaner is started, the entry is made.
Created(u) ==
  /\ Up /\ pc[u] = "creating"
  /\ file' = [file EXCEPT ![wants[u]] = "whole"]
  /\ created' = [created EXCEPT ![wants[u]] = u]
  /\ wg' = [wg EXCEPT ![u] = {u}]
  /\ ent' = [ent EXCEPT ![u] = u]
  /\ pc' = [pc EXCEPT ![u] = "holding"]
  /\ cleaner' = [cleaner EXCEPT ![u] = "started"]
  /\ running' = running \cup {u}
  /\ UNCHANGED <<wants, programVars>>

\* The copy stops half way, and what is there of it stays.
CreateError(u) ==
  /\ Up /\ pc[u] = "creating" /\ Faults
  /\ pc' = [pc EXCEPT ![u] = "ended"]
  /\ UNCHANGED <<wants, ent, created, wg, cleaner, running, file, programVars>>

\* Mutation: whoever leaves a WaitGroup empty sets off a removal.
DoneReleases(u) ==
  /\ Up /\ pc[u] = "holding"
  /\ LET g == ent[u] IN
     /\ wg' = [wg EXCEPT ![g] = @ \ {u}]
     /\ cleaner' = IF wg[g] \ {u} = {}
                   THEN [cleaner EXCEPT ![g] = "released"] ELSE cleaner
  /\ pc' = [pc EXCEPT ![u] = "ended"]
  /\ UNCHANGED <<wants, ent, created, running, file, programVars>>

\* Mutation: wg.Done is not reached when the command fails.
DoneForgotten(u) ==
  /\ Up /\ pc[u] = "holding"
  /\ pc' = [pc EXCEPT ![u] = "ended"]
  /\ UNCHANGED <<wants, ent, created, wg, cleaner, running, file, programVars>>

\* wg.Done, when the command has run: the last one releases a parked cleaner.
Done(u) ==
  /\ Up /\ pc[u] = "holding"
  /\ LET g == ent[u] IN
     /\ wg' = [wg EXCEPT ![g] = @ \ {u}]
     /\ cleaner' = IF wg[g] \ {u} = {} /\ cleaner[g] = "parked"
                   THEN [cleaner EXCEPT ![g] = "released"] ELSE cleaner
  /\ pc' = [pc EXCEPT ![u] = "ended"]
  /\ UNCHANGED <<wants, ent, created, running, file, programVars>>

\* The cleaner calls wg.Wait, which returns at once if the counter is zero.
Wait(g) ==
  /\ Up /\ cleaner[g] = "started"
  /\ cleaner' = [cleaner EXCEPT ![g] = IF wg[g] = {} THEN "removing" ELSE "parked"]
  /\ UNCHANGED <<wants, pc, ent, created, wg, running, file, programVars>>

\* Released, wg.Wait returns, or panics if the WaitGroup has been reused.
Resume(g) ==
  /\ Up /\ cleaner[g] = "released"
  /\ IF wg[g] = {}
     THEN cleaner' = [cleaner EXCEPT ![g] = "removing"] /\ UNCHANGED panicked
     ELSE panicked' = TRUE /\ UNCHANGED cleaner
  /\ UNCHANGED <<wants, pc, ent, created, wg, running, file, dir, end>>

\* Man.remove, under createdMu; the cleaner panics if it fails.
Remove(g) ==
  /\ Up /\ cleaner[g] = "removing" /\ ~Locked
  /\ IF created[wants[g]] # Nil /\ file[wants[g]] # "none"
     THEN /\ file' = [file EXCEPT ![wants[g]] = "none"]
          /\ created' = [created EXCEPT ![wants[g]] = Nil]
          /\ cleaner' = [cleaner EXCEPT ![g] = "removed"]
          /\ UNCHANGED panicked
     ELSE panicked' = TRUE /\ UNCHANGED <<file, created, cleaner>>
  /\ UNCHANGED <<wants, pc, ent, wg, running, dir, end>>

\* Man.wg.Done, last thing the cleaner does.
CleanerDone(g) ==
  /\ Up /\ cleaner[g] = "removed"
  /\ running' = running \ {g}
  /\ cleaner' = [cleaner EXCEPT ![g] = "none"]
  /\ UNCHANGED <<wants, pc, ent, created, wg, file, programVars>>

\* Dir.Finish, when start() returns, which an error anywhere in the chain makes it
\* do at any time: Man.Len, ...
FinishLen ==
  /\ Up /\ end = "no" /\ ~Locked
  /\ end' = IF \A p \in Path : created[p] = Nil THEN "counted" ELSE "returned"
  /\ UNCHANGED <<wants, pc, ent, created, wg, cleaner, running, file, dir, panicked>>

\* ... then os.Remove, which wants the directory empty.
FinishRemove ==
  /\ Up /\ end = "counted"
  /\ dir' = IF \A p \in Path : file[p] = "none" THEN "gone" ELSE dir
  /\ end' = "returned"
  /\ UNCHANGED <<wants, pc, ent, created, wg, cleaner, running, file, panicked>>

\* main returns, or calls os.Exit: no goroutine goes on.
Exit ==
  /\ Up /\ end = "returned"
  /\ end' = "exited"
  /\ UNCHANGED <<wants, pc, ent, created, wg, cleaner, running, file, dir, panicked>>

Ended == ~Up /\ UNCHANGED vars

CreateEnds(u) == Created(u) \/ CreateError(u)

UserStep(u) == Get(u) \/ CreateEnds(u) \/ Done(u)

CleanerStep(g) == Wait(g) \/ Resume(g) \/ Remove(g) \/ CleanerDone(g)

EndStep == FinishLen \/ FinishRemove \/ Exit

Next == \/ \E u \in User : UserStep(u) \/ CleanerStep(u)
        \/ EndStep \/ Ended

Spec == Init /\ [][Next]_vars

\* Copies and commands end and goroutines are scheduled.  Whether users come, and
\* when the program ends, is open.
Fairness == \A u \in User : WF_vars(CreateEnds(u)) /\ WF_vars(Done(u)) /\ WF_vars(CleanerStep(u))

FairSpec == Spec /\ Fairness
-----------------------------------------------------------------------------
\* Types.
TypeOK ==
  /\ wants \in [User -> Path]
  /\ pc \in [User -> {"idle", "creating", "holding", "ended"}]
  /\ ent \in [User -> User \cup {Nil}]
  /\ created \in [Path -> User \cup {Nil}]
  /\ wg \in [User -> SUBSET User]
  /\ cleaner \in [User -> {"none", "started", "parked", "released",
                           "removing", "removed"}]
  /\ running \in SUBSET User
  /\ file \in [Path -> {"none", "whole", "partial"}]
  /\ dir \in {"there", "gone"} /\ end \in {"no", "counted", "returned", "exited"}
  /\ panicked \in BOOLEAN

\* The users of a file and what they were handed: the file, written whole.
FileExistsWhileHeld ==
  \A u \in User : pc[u] = "holding" => file[wants[u]] = "whole"

\* A WaitGroup taken up again after it let its cleaner go.
Revived(g) == wg[g] # {} /\ cleaner[g] \notin {"started", "parked"}

\* A user only loses its file, and wg.Wait only panics, through a Get that
\* came between the last Done and the removal (Man.Get reuses the entry).
LostOnlyIfRevived ==
  (\A g \in User : ~Revived(g)) => FileExistsWhileHeld

\* Man.remove finds its entry and its file: the cleaner's panic(err) is dead
\* code, even for entries that were taken up again.
RemoveSucceeds ==
  \A g \in User : cleaner[g] = "removing" =>
    created[wants[g]] = g /\ file[wants[g]] = "whole"

\* Man.Wait and Man.Len: when no cleaner is left no entry is, nor any file but
\* those whose writing failed; and a create that finds a file finds such a one.
WaitMeansClean ==
  /\ running = {} => \A p \in Path : created[p] = Nil
  /\ \A p \in Path : created[p] = Nil => file[p] # "whole"

\* Dir.Finish (cmd/main.go:52) returns with the directory in place only while a
\* cleaner is still under way, or a file is half written, by a copy that goes on or
\* by one that has failed: nothing else keeps an entry or a file.
DirLeftForAReason ==
  [][end # "returned" /\ end' = "returned" /\ dir' = "there"
       => running # {} \/ \E p \in Path : file[p] = "partial"]_vars

\* An entry goes, whoever shares or revives it whenever, unless the program is over
\* before: no cleaner waits for a user that has ended.
EntriesGo == \A p \in Path : created[p] # Nil ~> (created[p] = Nil \/ ~Up)

\* What makes the invariants inductive: a WaitGroup counts its holders, ...
UserInv ==
  \A u \in User :
    /\ pc[u] = "holding" => ent[u] \in User /\ u \in wg[ent[u]]
    /\ \A g \in User :
         u \in wg[g] => pc[u] = "holding" /\ ent[u] = g /\ wants[g] = wants[u]

\* ... an entry of the map has its file, and a cleaner that is still to remove
\* it, which no other cleaner will, ...
EntryInv ==
  /\ \A p \in Path : created[p] # Nil =>
       /\ wants[created[p]] = p /\ file[p] = "whole"
       /\ cleaner[created[p]] \in {"started", "parked", "released", "removing"}
  /\ \A g \in User :
       cleaner[g] \in {"started", "parked", "released", "removing"} =>
         created[wants[g]] = g
  /\ \A p \in Path : created[p] = Nil => file[p] # "whole"

\* ... Man.wg counts the cleaners, and a parked one has someone to wait for.
CleanerInv ==
  \A g \in User :
    /\ cleaner[g] # "none" <=> g \in running
    /\ cleaner[g] = "parked" => wg[g] # {}
    /\ pc[g] \in {"idle", "creating"} => cleaner[g] = "none" /\ wg[g] = {}

\* ... and createdMu has one holder, whose file nobody has but itself.
LockInv ==
  \A u \in User : pc[u] = "creating" =>
    /\ created[wants[u]] = Nil /\ file[wants[u]] = "partial"
    /\ \A v \in User : pc[v] = "creating" => v = u

IndInv == TypeOK /\ UserInv /\ EntryInv /\ CleanerInv /\ LockInv

\* What goroutines wait for: a parked cleaner for its users, one that removes for
\* createdMu.
CanMove(u) == \/ pc[u] \in {"creating", "holding"}
              \/ cleaner[u] \in {"started", "released"}
              \/ cleaner[u] = "removing" /\ ~Locked

\* An entry has a user that has its file or a cleaner that can go on, or waits for
\* the user that holds createdMu.
NeverStuck ==
  Up => \A p \in Path : created[p] # Nil =>
          \E u \in User : CanMove(u) /\ (wants[u] = p \/ pc[u] = "creating")

\* What is left to do: by users, by the cleaners they may start, by the program.
UserStage    == [idle |-> 3, creating |-> 2, holding |-> 1, ended |-> 0]
CleanerStage == [started |-> 5, parked |-> 4, released |-> 3, removing |-> 2,
                 removed |-> 1, none |-> 0]
EndStage     == [no |-> 3, counted |-> 2, returned |-> 1, exited |-> 0]

Unstarted(u) == pc[u] \in {"idle", "creating"}
UsersLeft    == {x \in User \X (1 .. 3) : x[2] <= UserStage[pc[x[1]]]}
CleanersLeft == {x \in User \X (1 .. 5) : Unstarted(x[1]) \/ x[2] <= CleanerStage[cleaner[x[1]]]}
EndLeft      == {k \in 1 .. 3 : ~panicked /\ k <= EndStage[end]}

Left == <<UsersLeft, CleanersLeft, EndLeft>>

\* A step takes something off what is left and adds nothing.
Shrinks == Left' # Left /\ \A k \in 1 .. 3 : Left'[k] \subseteq Left[k]
=============================================================================

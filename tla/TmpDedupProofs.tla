--------------------------- MODULE TmpDedupProofs ---------------------------
(***************************************************************************)
(* Temporary files, for any users and paths.                               *)
(***************************************************************************)
EXTENDS TmpDedup, FiniteSetTheorems, TLAPS

LEMMA InitInd == ASSUME TmpDedupAssumption, Init PROVE IndInv
<1> USE DEF Init
<1>5. LockInv
  BY DEF LockInv
<1>1. TypeOK
  BY DEF TypeOK
<1>2. UserInv
  BY DEF UserInv
<1>3. EntryInv
  BY DEF EntryInv, TmpDedupAssumption
<1>4. CleanerInv
  BY DEF CleanerInv
<1> QED
  BY <1>1, <1>2, <1>3, <1>4, <1>5 DEF IndInv

\* A step that does not touch the file of a user under createdMu, nor its entry.
LEMMA LockKept ==
  ASSUME LockInv, UNCHANGED wants,
         \A u \in User : pc'[u] = "creating" =>
           /\ pc[u] = "creating" /\ created'[wants[u]] = created[wants[u]]
           /\ file'[wants[u]] = file[wants[u]]
  PROVE  LockInv'
  BY DEF LockInv

LEMMA ShareInd ==
  ASSUME TmpDedupAssumption, IndInv, NEW u \in User, pc[u] = "idle", ~Locked, Share(u),
         UNCHANGED <<wants, programVars>>
  PROVE  IndInv'
<1> DEFINE g == created[wants[u]]
<1>1. /\ TypeOK /\ UserInv /\ EntryInv /\ CleanerInv /\ LockInv
      /\ g \in User /\ wants[g] = wants[u]
      /\ cleaner[g] \in {"started", "parked", "released", "removing"}
  BY DEF IndInv, TypeOK, EntryInv, Share
<1>2. /\ wg' = [wg EXCEPT ![g] = @ \cup {u}]
      /\ ent' = [ent EXCEPT ![u] = g]
      /\ pc' = [pc EXCEPT ![u] = "holding"]
      /\ UNCHANGED <<created, cleaner, running, file>>
  BY DEF Share
<1> HIDE DEF g
<1>3. TypeOK'
  BY <1>1, <1>2 DEF TypeOK, programVars
<1>4. UserInv'
  <2>1. \A h \in User : u \notin wg[h]
    BY <1>1 DEF UserInv
  <2>2. \A v \in User : /\ pc'[v] = IF v = u THEN "holding" ELSE pc[v]
                        /\ ent'[v] = IF v = u THEN g ELSE ent[v]
                        /\ wg'[v] = IF v = g THEN wg[v] \cup {u} ELSE wg[v]
    BY <1>1, <1>2 DEF TypeOK
  <2>3. \A v \in User : pc[v] = "holding" => ent[v] \in User /\ v \in wg[ent[v]]
    BY <1>1 DEF UserInv
  <2>4. ASSUME NEW v \in User, pc'[v] = "holding"
        PROVE  ent'[v] \in User /\ v \in wg'[ent'[v]]
    <3>1. CASE v = u
      BY <1>1, <2>2, <3>1
    <3>2. CASE v # u
      BY <2>2, <2>3, <2>4, <3>2
    <3> QED
      BY <3>1, <3>2
  <2>5. ASSUME NEW v \in User, NEW h \in User, v \in wg'[h]
        PROVE  pc'[v] = "holding" /\ ent'[v] = h /\ wants[h] = wants[v]
    <3>1. CASE v = u
      BY <1>1, <2>1, <2>2, <2>5, <3>1
    <3>2. CASE v # u
      <4>1. v \in wg[h]
        BY <2>2, <2>5, <3>2
      <4>2. pc[v] = "holding" /\ ent[v] = h /\ wants[h] = wants[v]
        BY <1>1, <4>1 DEF UserInv
      <4> QED
        BY <2>2, <3>2, <4>2
    <3> QED
      BY <3>1, <3>2
  <2> QED
    BY <2>4, <2>5 DEF UserInv
<1>5. EntryInv'
  BY <1>1, <1>2 DEF EntryInv
<1>6. CleanerInv'
  <2>1. \A v \in User : /\ pc'[v] \in {"idle", "creating"} => pc[v] \in {"idle", "creating"}
                        /\ wg'[v] = IF v = g THEN wg[v] \cup {u} ELSE wg[v]
    BY <1>1, <1>2 DEF TypeOK
  <2>2. pc[g] \notin {"idle", "creating"}
    BY <1>1 DEF CleanerInv
  <2> QED
    BY <1>1, <1>2, <2>1, <2>2 DEF CleanerInv
<1>7. LockInv'
  <2>1. \A v \in User : pc'[v] # "creating"
    BY <1>1, <1>2 DEF TypeOK, Locked
  <2> QED
    BY <2>1 DEF LockInv
<1> QED
  BY <1>3, <1>4, <1>5, <1>6, <1>7 DEF IndInv

LEMMA CreateInd ==
  ASSUME TmpDedupAssumption, IndInv, NEW u \in User, pc[u] = "idle", ~Locked, Create(u),
         UNCHANGED <<wants, programVars>>
  PROVE  IndInv'
<1> DEFINE p == wants[u]
<1>1. /\ TypeOK /\ UserInv /\ EntryInv /\ CleanerInv /\ p \in Path
      /\ created[p] = Nil
      /\ file' = [file EXCEPT ![p] = "partial"]
      /\ pc' = [pc EXCEPT ![u] = "creating"]
      /\ UNCHANGED <<wants, ent, created, wg, cleaner, running, programVars>>
  BY DEF IndInv, TypeOK, Create
<1>2. /\ \A v \in User : pc'[v] = IF v = u THEN "creating" ELSE pc[v]
      /\ \A q \in Path : file'[q] = IF q = p THEN "partial" ELSE file[q]
      /\ \A v \in User : pc[v] # "creating"
  BY <1>1 DEF TypeOK, Locked
<1>3. TypeOK'
  BY <1>1 DEF TypeOK, programVars
<1>4. UserInv'
  BY <1>1, <1>2 DEF UserInv
<1>5. EntryInv'
  BY <1>1, <1>2 DEF EntryInv
<1>6. CleanerInv'
  BY <1>1, <1>2 DEF CleanerInv
<1>7. LockInv'
  BY <1>1, <1>2 DEF LockInv
<1> QED
  BY <1>3, <1>4, <1>5, <1>6, <1>7 DEF IndInv

LEMMA CreatedInd ==
  ASSUME TmpDedupAssumption, IndInv, NEW u \in User, Created(u)
  PROVE  IndInv'
<1> DEFINE p == wants[u]
<1>1. /\ TypeOK /\ UserInv /\ EntryInv /\ CleanerInv /\ LockInv
      /\ p \in Path /\ u # Nil /\ pc[u] = "creating" /\ created[p] = Nil
      /\ cleaner[u] = "none" /\ wg[u] = {}
  BY DEF IndInv, TypeOK, CleanerInv, LockInv, Created, TmpDedupAssumption
<1>2. /\ UNCHANGED <<wants, programVars>>
      /\ file' = [file EXCEPT ![p] = "whole"]
      /\ created' = [created EXCEPT ![p] = u]
      /\ wg' = [wg EXCEPT ![u] = {u}]
      /\ ent' = [ent EXCEPT ![u] = u]
      /\ pc' = [pc EXCEPT ![u] = "holding"]
      /\ cleaner' = [cleaner EXCEPT ![u] = "started"]
      /\ running' = running \cup {u}
  BY DEF Created
<1>3. /\ \A v \in User : /\ pc'[v] = IF v = u THEN "holding" ELSE pc[v]
                         /\ ent'[v] = IF v = u THEN u ELSE ent[v]
                         /\ wg'[v] = IF v = u THEN {u} ELSE wg[v]
                         /\ cleaner'[v] = IF v = u THEN "started" ELSE cleaner[v]
      /\ \A q \in Path : /\ file'[q] = IF q = p THEN "whole" ELSE file[q]
                         /\ created'[q] = IF q = p THEN u ELSE created[q]
  BY <1>1, <1>2 DEF TypeOK
<1>4. TypeOK'
  BY <1>1, <1>2 DEF TypeOK, programVars
<1>5. UserInv'
  BY <1>1, <1>2, <1>3 DEF UserInv, TypeOK
<1>6. EntryInv'
  <2>1. \A g \in User : cleaner[g] \in {"started", "parked", "released", "removing"} =>
          created[wants[g]] = g /\ wants[g] # p
    BY <1>1, <1>2 DEF EntryInv
  <2>6. wants' = wants
    BY <1>2
  <2> HIDE DEF p
  <2>2. /\ \A g \in User : wants[g] \in Path /\ wants'[g] = wants[g]
        /\ wants[u] = p
        /\ \A q \in Path : created[q] # Nil => created[q] \in User
    BY <1>1, <2>6 DEF TypeOK, p
  <2>3. ASSUME NEW q \in Path, created'[q] # Nil
        PROVE  /\ wants'[created'[q]] = q /\ file'[q] = "whole"
               /\ cleaner'[created'[q]] \in {"started", "parked", "released", "removing"}
    <3>1. CASE q = p
      BY <1>3, <2>2, <3>1
    <3>2. CASE q # p
      <4>1. created'[q] = created[q] /\ file'[q] = file[q] /\ created[q] \in User
        BY <1>3, <2>2, <2>3, <3>2
      <4>2. /\ wants[created[q]] = q /\ file[q] = "whole"
            /\ cleaner[created[q]] \in {"started", "parked", "released", "removing"}
        BY <1>1, <2>3, <4>1 DEF EntryInv
      <4>3. created[q] # u
        BY <2>2, <3>2, <4>2
      <4> QED
        BY <1>3, <2>2, <4>1, <4>2, <4>3
    <3> QED
      BY <3>1, <3>2
  <2>4. ASSUME NEW g \in User, cleaner'[g] \in {"started", "parked", "released", "removing"}
        PROVE  created'[wants'[g]] = g
    <3>1. CASE g = u
      BY <1>1, <1>3, <2>2, <3>1
    <3>2. CASE g # u
      BY <1>3, <2>1, <2>2, <2>4, <3>2
    <3> QED
      BY <3>1, <3>2
  <2>5. \A q \in Path : created'[q] = Nil => file'[q] # "whole"
    BY <1>1, <1>3 DEF EntryInv
  <2> QED
    BY <2>3, <2>4, <2>5 DEF EntryInv
<1>7. CleanerInv'
  BY <1>1, <1>2, <1>3 DEF CleanerInv
<1>8. LockInv'
  <2>1. \A v \in User : pc'[v] # "creating"
    BY <1>1, <1>3 DEF LockInv
  <2> QED
    BY <2>1 DEF LockInv
<1> QED
  BY <1>4, <1>5, <1>6, <1>7, <1>8 DEF IndInv

\* A create that fails, before or after it has made a file.
LEMMA CreateErrorInd ==
  ASSUME TmpDedupAssumption, IndInv, NEW u \in User, pc' = [pc EXCEPT ![u] = "ended"],
         pc[u] \in {"idle", "creating"},
         UNCHANGED <<wants, ent, created, wg, cleaner, running, file, programVars>>
  PROVE  IndInv'
<1>1. TypeOK /\ UserInv /\ EntryInv /\ CleanerInv /\ LockInv
  BY DEF IndInv
<1>2. \A v \in User : pc'[v] = IF v = u THEN "ended" ELSE pc[v]
  BY <1>1 DEF TypeOK
<1>3. TypeOK'
  BY <1>1 DEF TypeOK, programVars
<1>4. UserInv'
  BY <1>1, <1>2 DEF UserInv
<1>5. EntryInv'
  BY <1>1 DEF EntryInv
<1>6. CleanerInv'
  BY <1>1, <1>2 DEF CleanerInv
<1>7. LockInv'
  BY <1>1, <1>2, LockKept
<1> QED
  BY <1>3, <1>4, <1>5, <1>6, <1>7 DEF IndInv

LEMMA DoneInd ==
  ASSUME TmpDedupAssumption, IndInv, NEW u \in User, Done(u)
  PROVE  IndInv'
<1> DEFINE g == ent[u]
<1>1. /\ TypeOK /\ UserInv /\ EntryInv /\ CleanerInv /\ LockInv
      /\ pc[u] = "holding" /\ g \in User /\ u \in wg[g]
  BY DEF IndInv, UserInv, Done
<1>2. /\ wg' = [wg EXCEPT ![g] = @ \ {u}]
      /\ cleaner' = IF wg[g] \ {u} = {} /\ cleaner[g] = "parked"
                    THEN [cleaner EXCEPT ![g] = "released"] ELSE cleaner
      /\ pc' = [pc EXCEPT ![u] = "ended"]
      /\ UNCHANGED <<wants, ent, created, running, file, programVars>>
  BY DEF Done
<1> HIDE DEF g
<1>3. \A v \in User : /\ pc'[v] = IF v = u THEN "ended" ELSE pc[v]
                      /\ wg'[v] = IF v = g THEN wg[g] \ {u} ELSE wg[v]
  BY <1>1, <1>2 DEF TypeOK
<1>4. \A v \in User : \/ cleaner'[v] = cleaner[v] /\ (v = g /\ cleaner[v] = "parked" => wg'[v] # {})
                      \/ v = g /\ cleaner[v] = "parked" /\ cleaner'[v] = "released"
  BY <1>1, <1>2, <1>3 DEF TypeOK
<1>5. TypeOK'
  BY <1>1, <1>2 DEF TypeOK, programVars
<1>6. UserInv'
  BY <1>1, <1>2, <1>3 DEF UserInv, g
<1>7. EntryInv'
  <2>1. \A v \in User : cleaner'[v] \in {"started", "parked", "released", "removing"}
                    <=> cleaner[v] \in {"started", "parked", "released", "removing"}
    BY <1>4
  <2>2. \A p \in Path : created[p] # Nil => created[p] \in User
    BY <1>1 DEF TypeOK
  <2> QED
    BY <1>1, <1>2, <2>1, <2>2 DEF EntryInv
<1>8. CleanerInv'
  <2>1. \A v \in User : v # g => cleaner'[v] = cleaner[v] /\ wg'[v] = wg[v]
    BY <1>3, <1>4
  <2>2. pc[g] \notin {"idle", "creating"}
    BY <1>1 DEF CleanerInv
  <2> QED
    BY <1>1, <1>2, <1>3, <1>4, <2>1, <2>2 DEF CleanerInv
<1>9. LockInv'
  BY <1>1, <1>2, <1>3, LockKept
<1> QED
  BY <1>5, <1>6, <1>7, <1>8, <1>9 DEF IndInv

\* A step that only takes cleaner g further: the map keeps its entries.
LEMMA CleanerMoves ==
  ASSUME TmpDedupAssumption, IndInv, NEW g \in User,
         cleaner[g] \in {"started", "released"},
         NEW c \in {"parked", "removing"}, c = "parked" => wg[g] # {},
         cleaner' = [cleaner EXCEPT ![g] = c],
         UNCHANGED <<wants, pc, ent, created, wg, running, file, dir, end>>,
         panicked' \in BOOLEAN
  PROVE  IndInv'
<1>1. TypeOK /\ UserInv /\ EntryInv /\ CleanerInv /\ LockInv
  BY DEF IndInv
<1>2. \A v \in User : cleaner'[v] = IF v = g THEN c ELSE cleaner[v]
  BY <1>1 DEF TypeOK
<1>3. TypeOK'
  BY <1>1 DEF TypeOK
<1>4. UserInv'
  BY <1>1 DEF UserInv
<1>5. EntryInv'
  <2>1. \A p \in Path : created[p] # Nil => created[p] \in User
    BY <1>1 DEF TypeOK
  <2> QED
    BY <1>1, <1>2, <2>1 DEF EntryInv
<1>6. CleanerInv'
  BY <1>1, <1>2 DEF CleanerInv
<1>7. LockInv'
  BY <1>1, LockKept
<1> QED
  BY <1>3, <1>4, <1>5, <1>6, <1>7 DEF IndInv

LEMMA RemoveInd ==
  ASSUME TmpDedupAssumption, IndInv, NEW g \in User, Remove(g)
  PROVE  IndInv'
<1> DEFINE p == wants[g]
<1>1. /\ TypeOK /\ UserInv /\ EntryInv /\ CleanerInv /\ LockInv
      /\ cleaner[g] = "removing" /\ created[p] = g /\ p \in Path
      /\ file[p] = "whole" /\ g # Nil
  BY DEF IndInv, TypeOK, EntryInv, Remove, TmpDedupAssumption
<1>2. /\ file' = [file EXCEPT ![p] = "none"]
      /\ created' = [created EXCEPT ![p] = Nil]
      /\ cleaner' = [cleaner EXCEPT ![g] = "removed"]
      /\ ~Locked /\ UNCHANGED <<wants, pc, ent, wg, running, programVars>>
  BY <1>1 DEF Remove, programVars
<1>3. /\ \A v \in User : cleaner'[v] = IF v = g THEN "removed" ELSE cleaner[v]
      /\ \A q \in Path : /\ file'[q] = IF q = p THEN "none" ELSE file[q]
                         /\ created'[q] = IF q = p THEN Nil ELSE created[q]
  BY <1>1, <1>2 DEF TypeOK
<1>4. TypeOK'
  BY <1>1, <1>2 DEF TypeOK, programVars
<1>5. UserInv'
  BY <1>1, <1>2 DEF UserInv
<1>6. EntryInv'
  <2>1. \A q \in Path : created[q] # Nil => created[q] \in User /\ (created[q] = g => q = p)
    BY <1>1 DEF TypeOK, EntryInv
  <2>2. \A h \in User : wants[h] \in Path
    BY <1>1 DEF TypeOK
  <2> HIDE DEF p
  <2> QED
    BY <1>1, <1>2, <1>3, <2>1, <2>2 DEF EntryInv
<1>7. CleanerInv'
  BY <1>1, <1>2, <1>3 DEF CleanerInv
<1>8. LockInv'
  BY <1>1, <1>2, LockKept DEF Locked
<1> QED
  BY <1>4, <1>5, <1>6, <1>7, <1>8 DEF IndInv

LEMMA CleanerDoneInd ==
  ASSUME TmpDedupAssumption, IndInv, NEW g \in User, CleanerDone(g)
  PROVE  IndInv'
<1>1. /\ TypeOK /\ UserInv /\ EntryInv /\ CleanerInv /\ LockInv
      /\ cleaner[g] = "removed"
      /\ running' = running \ {g}
      /\ cleaner' = [cleaner EXCEPT ![g] = "none"]
      /\ UNCHANGED <<wants, pc, ent, created, wg, file, programVars>>
  BY DEF IndInv, CleanerDone
<1>2. \A v \in User : cleaner'[v] = IF v = g THEN "none" ELSE cleaner[v]
  BY <1>1 DEF TypeOK
<1>3. TypeOK'
  BY <1>1 DEF TypeOK, programVars
<1>4. UserInv'
  BY <1>1 DEF UserInv
<1>5. EntryInv'
  <2>1. \A p \in Path : created[p] # Nil => created[p] \in User /\ created[p] # g
    BY <1>1 DEF TypeOK, EntryInv
  <2> QED
    BY <1>1, <1>2, <2>1 DEF EntryInv
<1>6. CleanerInv'
  BY <1>1, <1>2 DEF CleanerInv
<1>7. LockInv'
  BY <1>1, LockKept
<1> QED
  BY <1>3, <1>4, <1>5, <1>6, <1>7 DEF IndInv

\* The program's end, and a cleaner's crash, leave everything as it is.
LEMMA ProgramInd ==
  ASSUME IndInv, UNCHANGED <<wants, pc, ent, created, wg, cleaner, running, file>>,
         dir' \in {"there", "gone"}, end' \in {"no", "counted", "returned", "exited"},
         panicked' \in BOOLEAN
  PROVE  IndInv'
<1>1. TypeOK /\ UserInv /\ EntryInv /\ CleanerInv /\ LockInv
  BY DEF IndInv
<1>2. TypeOK'
  BY <1>1 DEF TypeOK
<1>3. UserInv' /\ EntryInv' /\ CleanerInv' /\ LockInv'
  BY <1>1 DEF UserInv, EntryInv, CleanerInv, LockInv
<1> QED
  BY <1>2, <1>3 DEF IndInv

LEMMA NextInd == ASSUME TmpDedupAssumption, IndInv, [Next]_vars PROVE IndInv'
<1> USE DEF programVars
<1>1. CASE UNCHANGED vars
  BY <1>1, ProgramInd DEF vars, IndInv, TypeOK
<1>2. ASSUME NEW u \in User, UserStep(u) PROVE IndInv'
  <2>1. CASE Get(u)
    <3>1. CASE OpenError(u)
      BY <2>1, <3>1, CreateErrorInd DEF Get, OpenError
    <3> QED
      BY <2>1, <3>1, ShareInd, CreateInd DEF Get
  <2>2. CASE CreateError(u)
    BY <2>2, CreateErrorInd DEF CreateError
  <2> QED
    BY <1>2, <2>1, <2>2, CreatedInd, DoneInd DEF UserStep, CreateEnds
<1>3. ASSUME NEW g \in User, CleanerStep(g) PROVE IndInv'
  <2>1. CASE Wait(g)
    BY <2>1, CleanerMoves DEF Wait, IndInv, TypeOK
  <2>2. CASE Resume(g) /\ wg[g] = {}
    BY <2>2, CleanerMoves DEF Resume, IndInv, TypeOK
  <2>3. CASE Resume(g) /\ wg[g] # {}
    <3>1. /\ panicked' \in BOOLEAN
          /\ UNCHANGED <<wants, pc, ent, created, wg, cleaner, running, file, dir, end>>
      BY <2>3 DEF Resume
    <3> QED
      BY <3>1, ProgramInd DEF IndInv, TypeOK
  <2> QED
    BY <1>3, <2>1, <2>2, <2>3, RemoveInd, CleanerDoneInd DEF CleanerStep
<1>4. CASE EndStep
  <2>1. /\ dir' \in {"there", "gone"} /\ end' \in {"no", "counted", "returned", "exited"}
        /\ UNCHANGED <<wants, pc, ent, created, wg, cleaner, running, file, panicked>>
    BY <1>4 DEF EndStep, FinishLen, FinishRemove, Exit, IndInv, TypeOK
  <2> QED
    BY <2>1, ProgramInd DEF IndInv, TypeOK
<1>5. CASE Ended
  BY <1>1, <1>5 DEF Ended
<1> QED
  BY <1>1, <1>2, <1>3, <1>4, <1>5 DEF Next

\* WaitGroups, map, cleaners and files agree, for any users and paths.
THEOREM Invariance == Spec => []IndInv
<1>1. Init => IndInv
  BY InitInd, TmpDedupAssumption
<1>2. IndInv /\ [Next]_vars => IndInv'
  BY NextInd, TmpDedupAssumption
<1> QED
  BY <1>1, <1>2, PTL DEF Spec

\* While no WaitGroup has been taken up again after its last Done, every user
\* of a temporary file has it, whole.
THEOREM FilesKept == Spec => []LostOnlyIfRevived
<1>1. IndInv => LostOnlyIfRevived
  <2> SUFFICES ASSUME IndInv, \A g \in User : ~Revived(g),
                      NEW u \in User, pc[u] = "holding"
               PROVE  file[wants[u]] = "whole"
    BY DEF LostOnlyIfRevived, FileExistsWhileHeld
  <2>1. ent[u] \in User /\ u \in wg[ent[u]] /\ wants[ent[u]] = wants[u]
    BY DEF IndInv, UserInv
  <2>2. cleaner[ent[u]] \in {"started", "parked"}
    BY <2>1 DEF Revived
  <2> QED
    BY <2>1, <2>2, TmpDedupAssumption DEF IndInv, EntryInv, TypeOK, TmpDedupAssumption
<1> QED
  BY <1>1, Invariance, PTL

\* Man.remove never fails.
THEOREM RemovalSucceeds == Spec => []RemoveSucceeds
<1>1. IndInv => RemoveSucceeds
  BY TmpDedupAssumption DEF IndInv, RemoveSucceeds, EntryInv, TypeOK, TmpDedupAssumption
<1> QED
  BY <1>1, Invariance, PTL

\* After Man.Wait no entry is left, nor any file that was written whole.
THEOREM WaitCleans == Spec => []WaitMeansClean
<1>1. IndInv => WaitMeansClean
  BY DEF IndInv, WaitMeansClean, EntryInv, CleanerInv, TypeOK
<1> QED
  BY <1>1, Invariance, PTL

\* The end of the program, at whatever moment it comes, leaves the directory only to
\* a cleaner that is still under way or to a file half written.
THEOREM FinishLeaves == Spec => DirLeftForAReason
<1>1. ASSUME IndInv, [Next]_vars, end # "returned", end' = "returned", dir' = "there"
      PROVE  running # {} \/ \E p \in Path : file[p] = "partial"
  <2>1. FinishLen \/ FinishRemove
    <3>1. ASSUME NEW u \in User, UserStep(u) \/ CleanerStep(u) PROVE end' = end
      BY <3>1 DEF UserStep, CreateEnds, CleanerStep, Get, Created, CreateError, Done, Wait,
                  Resume, Remove, CleanerDone, programVars
    <3>2. Exit \/ UNCHANGED vars => end' # "returned" \/ end' = end
      BY DEF Exit, vars, programVars
    <3> QED
      BY <1>1, <3>1, <3>2 DEF Next, EndStep, Ended
  <2>2. PICK p \in Path : created[p] # Nil \/ file[p] # "none"
    BY <1>1, <2>1 DEF FinishLen, FinishRemove
  <2>3. created[p] # Nil => created[p] \in running
    BY <1>1 DEF IndInv, TypeOK, EntryInv, CleanerInv
  <2>4. created[p] = Nil => file[p] \in {"none", "partial"}
    BY <1>1 DEF IndInv, TypeOK, EntryInv
  <2> QED
    BY <2>2, <2>3, <2>4
<1> QED
  BY <1>1, Invariance, PTL DEF Spec, DirLeftForAReason
-----------------------------------------------------------------------------
(* Entries go, and steps are used up.                                       *)

\* No deadlock over a file: the last user wakes its cleaner, and whoever holds
\* createdMu waits for nothing (tmpdedup/man.go).
THEOREM NoDeadlock == Spec => []NeverStuck
<1>1. IndInv => NeverStuck
  <2> SUFFICES ASSUME IndInv, NEW p \in Path, created[p] # Nil
               PROVE  \E u \in User : CanMove(u) /\ (wants[u] = p \/ pc[u] = "creating")
    BY DEF NeverStuck
  <2> DEFINE g == created[p]
  <2>1. /\ g \in User /\ wants[g] = p
        /\ cleaner[g] \in {"started", "parked", "released", "removing"}
    BY DEF IndInv, TypeOK, EntryInv
  <2> HIDE DEF g
  <2>2. CASE cleaner[g] \in {"started", "released"}
    BY <2>1, <2>2 DEF CanMove
  <2>3. CASE cleaner[g] = "parked"
    <3>1. PICK u \in User : u \in wg[g]
      BY <2>1, <2>3 DEF IndInv, CleanerInv, TypeOK
    <3>2. pc[u] = "holding" /\ wants[u] = p
      BY <2>1, <3>1 DEF IndInv, UserInv
    <3> QED
      BY <3>2 DEF CanMove
  <2>4. CASE cleaner[g] = "removing"
    BY <2>1, <2>4 DEF CanMove, Locked
  <2> QED
    BY <2>1, <2>2, <2>3, <2>4
<1> QED
  BY <1>1, Invariance, PTL

LEMMA LeftBySet ==
  ASSUME UsersLeft' \subseteq UsersLeft, CleanersLeft' \subseteq CleanersLeft,
         EndLeft' \subseteq EndLeft,
         UsersLeft' # UsersLeft \/ CleanersLeft' # CleanersLeft \/ EndLeft' # EndLeft
  PROVE  Shrinks
<1>1. Left' = <<UsersLeft', CleanersLeft', EndLeft'>> /\ Left = <<UsersLeft, CleanersLeft, EndLeft>>
  BY DEF Left
<1>2. \A k \in 1 .. 3 : k = 1 \/ k = 2 \/ k = 3
  OBVIOUS
<1>3. \A k \in 1 .. 3 : Left'[k] \subseteq Left[k]
  BY <1>1, <1>2
<1>4. Left' # Left
  BY <1>1
<1> QED
  BY <1>3, <1>4 DEF Shrinks

\* A user gets on, and no cleaner falls back but the one it starts.
LEMMA UserShrinks ==
  ASSUME TypeOK, NEW u \in User, NEW p \in {"creating", "holding", "ended"},
         UserStage[p] < UserStage[pc[u]], pc' = [pc EXCEPT ![u] = p],
         cleaner' \in [User -> {"none", "started", "parked", "released", "removing", "removed"}],
         \A g \in User : \/ g = u /\ pc[u] = "creating" /\ p = "holding"
                         \/ CleanerStage[cleaner'[g]] <= CleanerStage[cleaner[g]],
         UNCHANGED programVars
  PROVE  Shrinks
<1>1. /\ \A v \in User : pc'[v] = IF v = u THEN p ELSE pc[v]
      /\ \A v \in User : pc[v] \in {"idle", "creating", "holding", "ended"}
  BY DEF TypeOK
<1>2. /\ UserStage["idle"] = 3 /\ UserStage["creating"] = 2
      /\ UserStage["holding"] = 1 /\ UserStage["ended"] = 0
  BY DEF UserStage
<1>3. UsersLeft' \subseteq UsersLeft /\ UsersLeft' # UsersLeft
  <2> DEFINE x == <<u, UserStage[pc[u]]>>
  <2>1. x \in User \X (1 .. 3) /\ x[1] = u /\ x[2] = UserStage[pc[u]]
    BY <1>1, <1>2
  <2> HIDE DEF x
  <2>2. x \in UsersLeft /\ x \notin UsersLeft'
    BY <1>1, <1>2, <2>1 DEF UsersLeft
  <2>3. ASSUME NEW y \in UsersLeft' PROVE y \in UsersLeft
    <3>1. /\ y \in User \X (1 .. 3) /\ y[2] <= UserStage[pc'[y[1]]]
          /\ y[1] \in User /\ y[2] \in 1 .. 3
      BY <2>3 DEF UsersLeft
    <3>2. y[2] <= UserStage[pc[y[1]]]
      <4>1. CASE y[1] = u
        BY <1>1, <1>2, <3>1, <4>1
      <4>2. CASE y[1] # u
        BY <1>1, <3>1, <4>2
      <4> QED
        BY <4>1, <4>2
    <3> QED
      BY <3>1, <3>2 DEF UsersLeft
  <2> QED
    BY <2>2, <2>3
<1>4. \A v \in User : CleanerStage[cleaner[v]] \in 0 .. 5 /\ CleanerStage[cleaner'[v]] \in 0 .. 5
  <2>1. \A c \in {"none", "started", "parked", "released", "removing", "removed"} :
          CleanerStage[c] \in 0 .. 5
    BY DEF CleanerStage
  <2> QED
    BY <2>1 DEF TypeOK
<1>5. ASSUME NEW y \in CleanersLeft' PROVE y \in CleanersLeft
  <2>1. /\ y \in User \X (1 .. 5) /\ y[1] \in User /\ y[2] \in 1 .. 5
        /\ pc'[y[1]] \in {"idle", "creating"} \/ y[2] <= CleanerStage[cleaner'[y[1]]]
    BY <1>5 DEF CleanersLeft, Unstarted
  <2>2. pc'[y[1]] \in {"idle", "creating"} => pc[y[1]] \in {"idle", "creating"}
    BY <1>1, <1>2, <2>1
  <2>3. pc[y[1]] \in {"idle", "creating"} \/ y[2] <= CleanerStage[cleaner[y[1]]]
    BY <1>4, <2>1, <2>2
  <2> QED
    BY <2>1, <2>3 DEF CleanersLeft, Unstarted
<1>6. EndLeft' = EndLeft
  BY DEF EndLeft, programVars
<1> QED
  BY <1>3, <1>5, <1>6, LeftBySet

\* A cleaner gets on.
LEMMA CleanerShrinks ==
  ASSUME TypeOK, NEW g \in User, ~Unstarted(g),
         NEW c \in {"none", "parked", "removing", "removed"},
         CleanerStage[c] < CleanerStage[cleaner[g]],
         cleaner' = [cleaner EXCEPT ![g] = c], UNCHANGED <<pc, programVars>>
  PROVE  Shrinks
<1>1. /\ \A v \in User : cleaner'[v] = IF v = g THEN c ELSE cleaner[v]
      /\ cleaner[g] \in {"none", "started", "parked", "released", "removing", "removed"}
  BY DEF TypeOK
<1>2. \A d \in {"none", "started", "parked", "released", "removing", "removed"} :
        CleanerStage[d] \in 0 .. 5
  BY DEF CleanerStage
<1> DEFINE x == <<g, CleanerStage[cleaner[g]]>>
<1>3. x \in User \X (1 .. 5) /\ x[1] = g /\ x[2] = CleanerStage[cleaner[g]]
  BY <1>1, <1>2
<1> HIDE DEF x
<1>4. x \in CleanersLeft /\ x \notin CleanersLeft'
  BY <1>1, <1>2, <1>3 DEF CleanersLeft, Unstarted
<1>5. ASSUME NEW y \in CleanersLeft' PROVE y \in CleanersLeft
  <2>1. /\ y \in User \X (1 .. 5) /\ y[1] \in User /\ y[2] \in 1 .. 5
        /\ Unstarted(y[1]) \/ y[2] <= CleanerStage[cleaner'[y[1]]]
    BY <1>5 DEF CleanersLeft, Unstarted
  <2>2. Unstarted(y[1]) \/ y[2] <= CleanerStage[cleaner[y[1]]]
    <3>1. CASE y[1] = g
      BY <1>1, <1>2, <2>1, <3>1
    <3>2. CASE y[1] # g
      BY <1>1, <2>1, <3>2
    <3> QED
      BY <3>1, <3>2
  <2> QED
    BY <2>1, <2>2 DEF CleanersLeft
<1>6. UsersLeft' = UsersLeft /\ EndLeft' = EndLeft
  BY DEF UsersLeft, EndLeft, programVars
<1> QED
  BY <1>4, <1>5, <1>6, LeftBySet

\* The program's end, or its crash, gets on.
LEMMA EndShrinks ==
  ASSUME TypeOK, UNCHANGED <<pc, cleaner>>, ~panicked,
         panicked' \/ (panicked' = panicked /\ EndStage[end'] < EndStage[end]),
         end' \in {"no", "counted", "returned", "exited"}, end # "exited"
  PROVE  Shrinks
<1>1. UsersLeft' = UsersLeft /\ CleanersLeft' = CleanersLeft
  BY DEF UsersLeft, CleanersLeft, Unstarted
<1>2. \A e \in {"no", "counted", "returned"} : EndStage[e] \in 1 .. 3
  BY DEF EndStage
<1>3. EndStage["exited"] = 0
  BY DEF EndStage
<1>4. EndStage[end] \in 1 .. 3 /\ EndStage[end'] \in 0 .. 3
  BY <1>2, <1>3 DEF TypeOK
<1>5. EndLeft' \subseteq EndLeft
  BY <1>4 DEF EndLeft
<1>6. EndStage[end] \in EndLeft /\ EndStage[end] \notin EndLeft'
  BY <1>4 DEF EndLeft
<1> QED
  BY <1>1, <1>5, <1>6, LeftBySet

LEMMA StepShrinks ==
  ASSUME TmpDedupAssumption, IndInv, Next, ~UNCHANGED vars
  PROVE  Shrinks
<1>1. TypeOK /\ CleanerInv
  BY DEF IndInv
<1>2. /\ UserStage["idle"] = 3 /\ UserStage["creating"] = 2
      /\ UserStage["holding"] = 1 /\ UserStage["ended"] = 0
  BY DEF UserStage
<1>3. /\ CleanerStage["started"] = 5 /\ CleanerStage["parked"] = 4 /\ CleanerStage["released"] = 3
      /\ CleanerStage["removing"] = 2 /\ CleanerStage["removed"] = 1 /\ CleanerStage["none"] = 0
  BY DEF CleanerStage
<1>4. \A g \in User : CleanerStage[cleaner[g]] <= CleanerStage[cleaner[g]]
  BY <1>1, <1>3 DEF TypeOK
<1>5. ASSUME NEW u \in User, Get(u) \/ CreateError(u) PROVE Shrinks
  <2>1. /\ pc[u] \in {"idle", "creating"} /\ UNCHANGED <<cleaner, programVars>>
        /\ \/ pc' = [pc EXCEPT ![u] = "holding"] /\ pc[u] = "idle"
           \/ pc' = [pc EXCEPT ![u] = "creating"] /\ pc[u] = "idle"
           \/ pc' = [pc EXCEPT ![u] = "ended"]
    BY <1>5 DEF Get, Share, Create, OpenError, CreateError
  <2>2. PICK p \in {"creating", "holding", "ended"} :
          pc' = [pc EXCEPT ![u] = p] /\ UserStage[p] < UserStage[pc[u]]
    <3>1. UserStage["ended"] < UserStage[pc[u]]
      BY <1>2, <2>1
    <3>2. pc[u] = "idle" => /\ UserStage["holding"] < UserStage[pc[u]]
                            /\ UserStage["creating"] < UserStage[pc[u]]
      BY <1>2
    <3> QED
      BY <2>1, <3>1, <3>2
  <2>3. cleaner' \in [User -> {"none", "started", "parked", "released", "removing", "removed"}]
    BY <1>1, <2>1 DEF TypeOK
  <2> QED
    BY <1>1, <1>4, <2>1, <2>2, <2>3, UserShrinks
<1>6. ASSUME NEW u \in User, Created(u) \/ Done(u) PROVE Shrinks
  <2>1. PICK p \in {"holding", "ended"} :
          /\ pc' = [pc EXCEPT ![u] = p] /\ UserStage[p] < UserStage[pc[u]]
          /\ Created(u) => p = "holding" /\ pc[u] = "creating"
    <3>1. CASE Created(u)
      BY <1>2, <3>1 DEF Created, Done
    <3>2. CASE Done(u)
      BY <1>2, <3>2 DEF Created, Done
    <3> QED
      BY <1>6, <3>1, <3>2
  <2>2. UNCHANGED programVars
    BY <1>6 DEF Created, Done
  <2>3. \/ cleaner' = cleaner
        \/ p = "holding" /\ pc[u] = "creating" /\ cleaner' = [cleaner EXCEPT ![u] = "started"]
        \/ \E g \in User : cleaner[g] = "parked" /\ cleaner' = [cleaner EXCEPT ![g] = "released"]
    <3>1. CASE Done(u)
      <4>1. ent[u] \in User
        BY <3>1 DEF Done, IndInv, UserInv
      <4> QED
        BY <3>1, <4>1 DEF Done
    <3>2. CASE Created(u)
      BY <2>1, <3>2 DEF Created
    <3> QED
      BY <1>6, <3>1, <3>2
  <2>4. cleaner' \in [User -> {"none", "started", "parked", "released", "removing", "removed"}]
    BY <1>1, <2>3 DEF TypeOK
  <2>5. \A g \in User : \/ g = u /\ pc[u] = "creating" /\ p = "holding"
                        \/ CleanerStage[cleaner'[g]] <= CleanerStage[cleaner[g]]
    BY <1>1, <1>3, <1>4, <2>3 DEF TypeOK
  <2> QED
    BY <1>1, <2>1, <2>2, <2>4, <2>5, UserShrinks
<1>7. ASSUME NEW g \in User, CleanerStep(g) PROVE Shrinks
  <2>1. Up /\ cleaner[g] \in {"started", "released", "removing", "removed"}
    BY <1>7 DEF CleanerStep, Wait, Resume, Remove, CleanerDone
  <2>2. ~Unstarted(g)
    BY <1>1, <2>1 DEF CleanerInv, Unstarted
  <2>3. CASE panicked' /\ UNCHANGED <<pc, cleaner, end>>
    BY <1>1, <2>1, <2>3, EndShrinks DEF Up, TypeOK
  <2>4. CASE \E c \in {"none", "parked", "removing", "removed"} :
               /\ CleanerStage[c] < CleanerStage[cleaner[g]]
               /\ cleaner' = [cleaner EXCEPT ![g] = c] /\ UNCHANGED <<pc, programVars>>
    BY <1>1, <2>2, <2>4, CleanerShrinks
  <2>5. CASE Wait(g)
    <3>1. CASE wg[g] = {}
      BY <1>3, <2>4, <2>5, <3>1 DEF Wait
    <3>2. CASE wg[g] # {}
      <4>1. /\ cleaner[g] = "started" /\ cleaner' = [cleaner EXCEPT ![g] = "parked"]
            /\ UNCHANGED <<pc, programVars>>
        BY <2>5, <3>2 DEF Wait
      <4>2. CleanerStage["parked"] < CleanerStage[cleaner[g]]
        BY <1>3, <4>1
      <4> QED
        BY <2>4, <4>1, <4>2
    <3> QED
      BY <3>1, <3>2
  <2>6. CASE Resume(g)
    BY <1>3, <2>3, <2>4, <2>6 DEF Resume, programVars
  <2>7. CASE Remove(g)
    BY <1>3, <2>3, <2>4, <2>7 DEF Remove, programVars
  <2>8. CASE CleanerDone(g)
    BY <1>3, <2>4, <2>8 DEF CleanerDone
  <2> QED
    BY <1>7, <2>5, <2>6, <2>7, <2>8 DEF CleanerStep
<1>8. CASE EndStep
  <2>1. EndStage["no"] = 3 /\ EndStage["counted"] = 2 /\ EndStage["returned"] = 1
        /\ EndStage["exited"] = 0
    BY DEF EndStage
  <2>2. /\ end # "exited" /\ ~panicked /\ UNCHANGED <<pc, cleaner, panicked>>
        /\ end' \in {"no", "counted", "returned", "exited"} /\ EndStage[end'] < EndStage[end]
    BY <1>8, <2>1 DEF EndStep, FinishLen, FinishRemove, Exit, Up
  <2> QED
    BY <1>1, <2>2, EndShrinks
<1>9. ASSUME NEW u \in User, UserStep(u) PROVE Shrinks
  BY <1>5, <1>6, <1>9 DEF UserStep, CreateEnds
<1>10. ~Ended
  BY DEF Ended
<1> QED
  BY <1>7, <1>8, <1>9, <1>10 DEF Next

\* Users, cleaners and the program make no step that does not take something off
\* what is left ...
THEOREM OnlySoManySteps == Spec => [][Shrinks]_vars
<1>1. IndInv /\ [Next]_vars => [Shrinks]_vars
  BY StepShrinks, TmpDedupAssumption
<1> QED
  BY <1>1, Invariance, PTL DEF Spec

\* ... which is finite for finitely many users.
THEOREM LeftFinite ==
  ASSUME IsFiniteSet(User) PROVE \A k \in 1 .. 3 : IsFiniteSet(Left[k])
<1>1. IsFiniteSet(1 .. 3) /\ IsFiniteSet(1 .. 5)
  <2>1. 1 \in Int /\ 3 \in Int /\ 5 \in Int
    OBVIOUS
  <2> QED
    BY <2>1, FS_Interval
<1> DEFINE A == 1 .. 3
           B == 1 .. 5
<1>2. UsersLeft \in SUBSET (User \X A) /\ CleanersLeft \in SUBSET (User \X B)
  BY DEF UsersLeft, CleanersLeft
<1>3. IsFiniteSet(A) /\ IsFiniteSet(B)
  BY <1>1
<1> HIDE DEF A, B
<1>4. IsFiniteSet(User \X A) /\ IsFiniteSet(User \X B)
  BY <1>3, FS_Product
<1>5. IsFiniteSet(UsersLeft) /\ IsFiniteSet(CleanersLeft)
  BY <1>2, <1>4, FS_Subset
<1>7. IsFiniteSet(EndLeft)
  <2>1. EndLeft \in SUBSET (1 .. 3)
    BY DEF EndLeft
  <2> QED
    BY <1>1, <2>1, FS_Subset
<1>8. Left = <<UsersLeft, CleanersLeft, EndLeft>>
  BY DEF Left
<1>9. \A k \in 1 .. 3 : k = 1 \/ k = 2 \/ k = 3
  OBVIOUS
<1> QED
  BY <1>5, <1>7, <1>8, <1>9
=============================================================================

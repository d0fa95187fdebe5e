---------------------------- MODULE ResumeProofs ----------------------------
(***************************************************************************)
(* Runs that may be killed or fail between any two steps, for any stores,  *)
(* chunks, instances and number of faults.                                 *)
(***************************************************************************)
EXTENDS Resume, TLAPS, FiniteSetTheorems

\* Instance i is writing to s, and what it has written so far is right.
Right(i, s) == /\ s \in open[i] /\ off[i][s] <= Len(file[s][HashOf[i]])
               /\ \A b \in 1..off[i][s] : file[s][HashOf[i]][b] = "right"

\* The file is whole or is going to be.
Covered(s, h) == Whole(s, h) \/ \E i \in Inst : HashOf[i] = h /\ Right(i, s)

PhaseInv ==
  /\ phase = "off" => begun = {} /\ failed = {} /\ gone = {}
  /\ phase = "listing" => begun = {} /\ failed = {} /\ gone = {} /\ way # "direct"
  /\ phase # "off" => result = "none"
  /\ phase # "off" /\ way # "direct" => dest = Store
  /\ way = "restore" => begun = {}
  /\ way # "restore" /\ failed = {} => gone = {}

WritersInv ==
  /\ \A i \in Inst : i \notin begun => todo[i] = {} /\ open[i] = {}
  /\ \A i \in Inst : todo[i] \cap open[i] = {}
  /\ \A i \in Inst : \A s \in open[i] : Exists(s, HashOf[i])
  /\ \A s \in Store, h \in Hash : Exists(s, h) => Len(file[s][h]) <= Size[h]

\* The registry has all that the stores listed have, but what cp's listing has left
\* out, and nothing else.
KnownInv ==
  /\ phase = "listing" =>
       \A s \in listed : \A h \in Hash : Exists(s, h) => s \in known[h] \/ PassedOver(s, h)
  /\ phase # "off" /\ way = "stripe" => \A h \in Hash : \A s \in known[h] : Exists(s, h)

\* With stripe, one instance at a time writes a chunk, on stores that do not have it
\* or, of kind cp, do not know that they have.
LockInv ==
  phase = "on" /\ way = "stripe" =>
    /\ \A i, j \in Inst : Busy(i) /\ Busy(j) /\ HashOf[i] = HashOf[j] => i = j
    /\ \A s \in Store, h \in Hash :
         Whole(s, h) => \/ s \in known[h] \/ s \in gone \/ Kind[s] = "cp"
                        \/ \E i \in Inst : HashOf[i] = h /\ s \in open[i]
    /\ \A i \in Inst : \A s \in todo[i] : Whole(s, HashOf[i]) => Kind[s] = "cp"

\* As long as nothing has failed, all files are right or were not at the
\* start, and the copies asked for are there or on their way.
DataInv ==
  phase # "off" /\ failed = {} =>
    /\ \A s \in Store, h \in Hash : Exists(s, h) => <<s, h>> \in left \/ Covered(s, h)
    /\ way = "direct" => \A i \in begun : \A s \in dest \ todo[i] : Covered(s, HashOf[i])
    /\ way = "stripe" =>
         \A i \in begun : Cardinality(known[HashOf[i]] \cup todo[i] \cup open[i]) >= Min

\* What every step preserves.
IndInv == TypeOK /\ PhaseInv /\ WritersInv /\ KnownInv /\ LockInv /\ DataInv /\ OkMeansWritten

-----------------------------------------------------------------------------
(* Files.                                                                  *)

LEMMA WrittenIsFile ==
  ASSUME NEW f \in File, NEW n \in Nat
  PROVE  /\ Written(f, n) \in File
         /\ Len(Written(f, n)) = IF Len(f) > n THEN Len(f) ELSE n + 1
         /\ \A b \in 1..Len(Written(f, n)) :
              Written(f, n)[b] = IF b = n + 1 THEN "right" ELSE IF b <= Len(f) THEN f[b] ELSE "wrong"
  BY DEF Written, File

LEMMA FullIsFile ==
  ASSUME ResumeAssumption, NEW h \in Hash
  PROVE  /\ Full(h) \in File /\ Full(h) # Absent
         /\ Len(Full(h)) = Size[h] /\ Size[h] \in Nat /\ Size[h] > 0
         /\ Full(h) # <<>>
         /\ \A b \in 1..Size[h] : Full(h)[b] = "right"
<1>1. Size[h] \in Nat /\ Size[h] > 0
  BY DEF ResumeAssumption
<1>2. /\ Full(h) \in File /\ Len(Full(h)) = Size[h]
      /\ \A b \in 1..Size[h] : Full(h)[b] = "right"
  BY <1>1 DEF Full, File
<1>3. Full(h) # <<>>
  BY <1>1, <1>2
<1>4. Full(h) # Absent
  BY <1>2, Zenon DEF ResumeAssumption, File
<1> QED
  BY <1>1, <1>2, <1>3, <1>4

\* A file with as many blocks as the chunk, all right, is whole.
LEMMA RightIsFull ==
  ASSUME ResumeAssumption, NEW h \in Hash, NEW f \in File,
         Len(f) = Size[h], \A b \in 1..Size[h] : f[b] = "right"
  PROVE  f = Full(h)
<1>1. DOMAIN f = 1..Size[h] /\ f = [b \in 1..Len(f) |-> f[b]]
  BY DEF File
<1> QED
  BY <1>1 DEF Full

\* Writing a block loses none that is right, nor a whole file.
LEMMA WrittenKeeps ==
  ASSUME NEW f \in File, NEW n \in Nat, NEW b \in 1..Len(f), f[b] = "right"
  PROVE  /\ Len(f) <= Len(Written(f, n)) /\ b \in 1..Len(Written(f, n))
         /\ Written(f, n)[b] = "right"
<1>1. /\ Len(Written(f, n)) = IF Len(f) > n THEN Len(f) ELSE n + 1
      /\ \A c \in 1..Len(Written(f, n)) :
           Written(f, n)[c] = IF c = n + 1 THEN "right" ELSE IF c <= Len(f) THEN f[c] ELSE "wrong"
  BY WrittenIsFile
<1>2. Len(f) \in Nat /\ b <= Len(f)
  BY DEF File
<1>3. b \in 1..Len(Written(f, n)) /\ Len(f) <= Len(Written(f, n))
  BY <1>1, <1>2
<1> QED
  BY <1>1, <1>2, <1>3

LEMMA WrittenKeepsFull ==
  ASSUME ResumeAssumption, NEW h \in Hash, NEW n \in Nat, n < Size[h]
  PROVE  Written(Full(h), n) = Full(h)
<1>1. /\ Full(h) \in File /\ Len(Full(h)) = Size[h] /\ Size[h] \in Nat
      /\ \A b \in 1..Size[h] : Full(h)[b] = "right"
  BY FullIsFile
<1>2. Written(Full(h), n) \in File /\ Len(Written(Full(h), n)) = Size[h]
  BY <1>1, WrittenIsFile
<1>3. \A b \in 1..Size[h] : Written(Full(h), n)[b] = "right"
  BY <1>1, WrittenKeeps
<1> QED
  BY <1>2, <1>3, RightIsFull

-----------------------------------------------------------------------------
(* Types.                                                                  *)

LEMMA FreshType ==
  ASSUME ResumeAssumption, Fresh
  PROVE  /\ listed' = {} /\ missed' = {} /\ gone' = {} /\ begun' = {}
         /\ failed' = {} /\ stuck' = {}
         /\ known' \in [Hash -> SUBSET Store]
         /\ todo' \in [Inst -> SUBSET Store] /\ open' \in [Inst -> SUBSET Store]
         /\ off' \in [Inst -> [Store -> Nat]]
         /\ got' \in [Hash -> {"none", "whole", "corrupt", "lost", "error"}]
         /\ \A h \in Hash : known'[h] = {}
         /\ \A i \in Inst : todo'[i] = {} /\ open'[i] = {}
  BY DEF Fresh

LEMMA InitType == ASSUME ResumeAssumption, Init PROVE TypeOK
  BY DEF Init, TypeOK, ResumeAssumption

\* What writing a file changes.
LEMMA SetFileType ==
  ASSUME TypeOK, NEW s \in Store, NEW h \in Hash, NEW f \in File, SetFile(s, h, f)
  PROVE  /\ file' \in [Store -> [Hash -> File \cup {Absent}]]
         /\ file'[s][h] = f
         /\ \A t \in Store, g \in Hash : t # s \/ g # h => file'[t][g] = file[t][g]
<1>1. file \in [Store -> [Hash -> File \cup {Absent}]]
  BY DEF TypeOK
<1>2. file' = [file EXCEPT ![s][h] = f]
  BY DEF SetFile
<1> QED
  BY <1>1, <1>2

LEMMA StartType ==
  ASSUME ResumeAssumption, TypeOK, NEW w \in {"stripe", "direct", "restore"},
         NEW D \in SUBSET Store, StartRun(w, D)
  PROVE  TypeOK'
<1>1. phase' \in {"off", "listing", "on"} /\ way' = w /\ dest' = D /\ result' = "none"
  BY DEF StartRun
<1>2. left' \in SUBSET (Store \X Hash)
  BY DEF StartRun, Unwhole
<1>3. Fresh /\ UNCHANGED <<file, nfaults>>
  BY DEF StartRun
<1> QED
  BY <1>1, <1>2, <1>3, FreshType DEF TypeOK

LEMMA OverType ==
  ASSUME ResumeAssumption, TypeOK, NEW r \in {"ok", "error", "killed"}, Over(r),
         UNCHANGED nfaults \/ Fault
  PROVE  TypeOK'
<1>1. phase' = "off" /\ result' = r /\ Fresh /\ UNCHANGED <<file, way, dest, left>>
  BY DEF Over
<1>2. nfaults' \in 0..MaxFaults
  BY DEF Fault, TypeOK, ResumeAssumption
<1> QED
  BY <1>1, <1>2, FreshType DEF TypeOK

\* A listing without an error is whole, but cp's.
LEMMA ListedAll ==
  ASSUME ResumeAssumption, NEW s \in Store, NEW r \in Ls(s), ~r.err
  PROVE  r.names \subseteq Names(s) /\ (r.names = Names(s) \/ Kind[s] = "cp")
<1>1. Kind[s] \in {"cp", "dd", "rclone"}
  BY DEF ResumeAssumption
<1>2. CASE Kind[s] = "cp"
  BY <1>2 DEF Ls, LocalLister
<1>3. CASE Kind[s] # "cp"
  <2>1. r \in Sent(Names(s))
    BY <1>1, <1>3 DEF Ls, FindDirLister, RcloneLs
  <2> QED
    BY <2>1 DEF Sent
<1> QED
  BY <1>2, <1>3

LEMMA ListFacts ==
  ASSUME ResumeAssumption, TypeOK, NEW s \in Store, List(s)
  PROVE  /\ known' \in [Hash -> SUBSET Store] /\ missed' \subseteq Store \X Hash
         /\ nfaults' \in 0..MaxFaults
         /\ \A h \in Hash : known[h] \subseteq known'[h] /\ known'[h] \subseteq known[h] \cup {s}
         /\ \A h \in Hash : s \in known'[h] /\ s \notin known[h] => Exists(s, h)
         /\ \A h \in Hash : Exists(s, h) =>
              s \in known'[h] \/ (Kind[s] = "cp" /\ <<s, h>> \in missed')
         /\ missed \subseteq missed'
<1>1. PICK r \in Ls(s) :
        /\ ~r.err
        /\ known' = [h \in Hash |-> IF h \in r.names THEN known[h] \cup {s} ELSE known[h]]
        /\ missed' = missed \cup ({s} \X (Names(s) \ r.names))
        /\ IF r.names = Names(s) THEN UNCHANGED nfaults ELSE Fault
  BY DEF List
<1>2. r.names \subseteq Names(s) /\ (r.names = Names(s) \/ Kind[s] = "cp")
  BY <1>1, ListedAll
<1>3. known \in [Hash -> SUBSET Store] /\ missed \subseteq Store \X Hash
  BY DEF TypeOK
<1>4. missed' \subseteq Store \X Hash /\ missed \subseteq missed'
  BY <1>1, <1>3 DEF Names
<1>5. nfaults' \in 0..MaxFaults
  BY <1>1 DEF Fault, TypeOK, ResumeAssumption
<1>6. known' \in [Hash -> SUBSET Store]
  BY <1>1, <1>3
<1>7. \A h \in Hash : known'[h] = IF h \in r.names THEN known[h] \cup {s} ELSE known[h]
  BY <1>1
<1>8. ASSUME NEW h \in Hash, Exists(s, h)
      PROVE  s \in known'[h] \/ (Kind[s] = "cp" /\ <<s, h>> \in missed')
  <2>1. CASE h \in r.names
    BY <1>7, <2>1
  <2>2. CASE h \notin r.names
    <3>1. h \in Names(s) \ r.names
      BY <1>8, <2>2 DEF Names
    <3> QED
      BY <1>1, <1>2, <3>1
  <2> QED
    BY <2>1, <2>2
<1>9. \A h \in Hash : s \in known'[h] /\ s \notin known[h] => Exists(s, h)
  BY <1>2, <1>7 DEF Names
<1> QED
  BY <1>3, <1>4, <1>5, <1>6, <1>7, <1>8, <1>9

LEMMA ListType ==
  ASSUME ResumeAssumption, TypeOK, NEW s \in Store, List(s)
  PROVE  TypeOK'
<1>1. /\ known' \in [Hash -> SUBSET Store] /\ missed' \subseteq Store \X Hash
      /\ nfaults' \in 0..MaxFaults
  BY ListFacts
<1> QED
  BY <1>1 DEF List, TypeOK

\* What the steps of instance i do to its sets and to nobody else's.
LEMMA OpenType ==
  ASSUME ResumeAssumption, TypeOK, NEW i \in Inst, NEW s \in Store, Opens(i, s),
         UNCHANGED file \/ SetFile(s, HashOf[i], <<>>)
  PROVE  TypeOK'
<1>1. file' \in [Store -> [Hash -> File \cup {Absent}]]
  <2>1. <<>> \in File /\ HashOf[i] \in Hash
    BY DEF File, ResumeAssumption
  <2> QED
    BY <2>1, SetFileType DEF TypeOK
<1> QED
  BY <1>1 DEF TypeOK, Opens, runVars

LEMMA WriteFacts ==
  ASSUME ResumeAssumption, TypeOK, WritersInv, NEW i \in Inst, NEW s \in Store, Write(i, s)
  PROVE  LET h == HashOf[i] IN
         /\ h \in Hash /\ file[s][h] \in File /\ off[i][s] \in Nat /\ off[i][s] < Size[h]
         /\ s \in open[i] /\ i \in begun
         /\ file'[s][h] = Written(file[s][h], off[i][s]) /\ file'[s][h] \in File
         /\ \A t \in Store, g \in Hash : t # s \/ g # h => file'[t][g] = file[t][g]
         /\ \A j \in Inst : \A t \in Store :
              off'[j][t] = IF j = i /\ t = s THEN off[i][s] + 1 ELSE off[j][t]
         /\ off' \in [Inst -> [Store -> Nat]]
         /\ file' \in [Store -> [Hash -> File \cup {Absent}]]
<1> DEFINE h == HashOf[i]
<1>1. /\ h \in Hash /\ off \in [Inst -> [Store -> Nat]] /\ off[i][s] \in Nat
      /\ file \in [Store -> [Hash -> File \cup {Absent}]]
  BY DEF TypeOK, ResumeAssumption
<1>2. /\ s \in open[i] /\ off[i][s] < Size[h]
      /\ SetFile(s, h, Written(file[s][h], off[i][s]))
      /\ off' = [off EXCEPT ![i][s] = off[i][s] + 1]
  BY DEF Write
<1>3. file[s][h] \in File /\ i \in begun
  BY <1>1, <1>2 DEF WritersInv, Exists
<1>4. Written(file[s][h], off[i][s]) \in File
  BY <1>1, <1>3, WrittenIsFile
<1> HIDE DEF h
<1>5. /\ file'[s][h] = Written(file[s][h], off[i][s])
      /\ \A t \in Store, g \in Hash : t # s \/ g # h => file'[t][g] = file[t][g]
      /\ file' \in [Store -> [Hash -> File \cup {Absent}]]
  BY <1>1, <1>2, <1>4, SetFileType
<1>6. /\ off' \in [Inst -> [Store -> Nat]]
      /\ \A j \in Inst : \A t \in Store :
              off'[j][t] = IF j = i /\ t = s THEN off[i][s] + 1 ELSE off[j][t]
  BY <1>1, <1>2
<1> QED
  BY <1>1, <1>2, <1>3, <1>4, <1>5, <1>6 DEF h

LEMMA WriteType ==
  ASSUME ResumeAssumption, TypeOK, WritersInv, NEW i \in Inst, NEW s \in Store, Write(i, s)
  PROVE  TypeOK'
<1>1. /\ off' \in [Inst -> [Store -> Nat]]
      /\ file' \in [Store -> [Hash -> File \cup {Absent}]]
  BY WriteFacts
<1> QED
  BY <1>1 DEF Write, TypeOK, runVars

LEMMA OwnedFacts ==
  ASSUME ResumeAssumption, TypeOK, NEW i \in Inst, NEW s \in Store, Owned(i, s)
  PROVE  /\ known' \in [Hash -> SUBSET Store]
         /\ way # "stripe" => known' = known
         /\ way = "stripe" =>
              \A h \in Hash : known'[h] = IF h = HashOf[i] THEN known[h] \cup {s} ELSE known[h]
<1>1. known \in [Hash -> SUBSET Store]
  BY DEF TypeOK
<1>2. /\ way = "stripe" => known' = [known EXCEPT ![HashOf[i]] = known[HashOf[i]] \cup {s}]
      /\ way # "stripe" => known' = known
  BY DEF Owned
<1>3. HashOf[i] \in Hash
  BY DEF ResumeAssumption
<1>4. known' \in [Hash -> SUBSET Store]
  BY <1>1, <1>2, <1>3
<1> QED
  BY <1>1, <1>2, <1>3, <1>4

LEMMA EndWriteFacts ==
  ASSUME ResumeAssumption, TypeOK, NEW i \in Inst, NEW s \in Store, EndWrite(i, s)
  PROVE  /\ \A j \in Inst : open'[j] = IF j = i THEN open[i] \ {s} ELSE open[j]
         /\ open' \in [Inst -> SUBSET Store]
<1>1. open \in [Inst -> SUBSET Store]
  BY DEF TypeOK
<1>2. open' = [open EXCEPT ![i] = open[i] \ {s}]
  BY DEF EndWrite
<1> QED
  BY <1>1, <1>2

LEMMA EndWriteType ==
  ASSUME ResumeAssumption, TypeOK, NEW i \in Inst, NEW s \in Store, EndWrite(i, s)
  PROVE  TypeOK'
<1>1. Owned(i, s)
  BY DEF EndWrite
<1> QED
  BY <1>1, EndWriteFacts, OwnedFacts DEF EndWrite, TypeOK, runVars

LEMMA RcloneFacts ==
  ASSUME ResumeAssumption, TypeOK, NEW i \in Inst, NEW s \in Store, RcloneCopy(i, s)
  PROVE  LET h == HashOf[i] IN
         /\ h \in Hash /\ Owned(i, s)
         /\ \A j \in Inst : todo'[j] = IF j = i THEN todo[i] \ {s} ELSE todo[j]
         /\ todo' \in [Inst -> SUBSET Store]
         /\ file'[s][h] = Full(h)
         /\ \A t \in Store, g \in Hash : t # s \/ g # h => file'[t][g] = file[t][g]
         /\ file' \in [Store -> [Hash -> File \cup {Absent}]]
<1>1. /\ todo \in [Inst -> SUBSET Store] /\ HashOf[i] \in Hash
      /\ Full(HashOf[i]) \in File
  BY FullIsFile DEF TypeOK, ResumeAssumption
<1>2. /\ todo' = [todo EXCEPT ![i] = todo[i] \ {s}]
      /\ SetFile(s, HashOf[i], Full(HashOf[i])) /\ Owned(i, s)
  BY DEF RcloneCopy
<1> QED
  BY <1>1, <1>2, SetFileType

LEMMA RcloneType ==
  ASSUME ResumeAssumption, TypeOK, NEW i \in Inst, NEW s \in Store, RcloneCopy(i, s)
  PROVE  TypeOK'
  BY RcloneFacts, OwnedFacts DEF RcloneCopy, TypeOK, runVars

LEMMA WriteErrorFacts ==
  ASSUME ResumeAssumption, TypeOK, NEW i \in Inst, NEW s \in Store, WriteError(i, s)
  PROVE  /\ \A j \in Inst : /\ todo'[j] = IF j = i THEN todo[i] \ {s} ELSE todo[j]
                            /\ open'[j] = IF j = i THEN open[i] \ {s} ELSE open[j]
         /\ todo' \in [Inst -> SUBSET Store] /\ open' \in [Inst -> SUBSET Store]
<1>1. todo \in [Inst -> SUBSET Store] /\ open \in [Inst -> SUBSET Store]
  BY DEF TypeOK
<1>2. /\ todo' = [todo EXCEPT ![i] = todo[i] \ {s}]
      /\ open' = [open EXCEPT ![i] = open[i] \ {s}]
  BY DEF WriteError
<1> QED
  BY <1>1, <1>2

LEMMA WriteErrorType ==
  ASSUME ResumeAssumption, TypeOK, NEW i \in Inst, NEW s \in Store, WriteError(i, s)
  PROVE  TypeOK'
<1>1. nfaults' \in 0..MaxFaults
  BY DEF WriteError, Fault, TypeOK, ResumeAssumption
<1> QED
  BY <1>1, WriteErrorFacts DEF WriteError, TypeOK, runVars

-----------------------------------------------------------------------------
(* The start and the end of a run.                                         *)

LEMMA InitInd == ASSUME ResumeAssumption, Init PROVE IndInv
<1>1. TypeOK
  BY InitType
<1>2. PhaseInv /\ KnownInv /\ LockInv /\ DataInv /\ OkMeansWritten
  BY DEF Init, PhaseInv, KnownInv, LockInv, DataInv, OkMeansWritten
<1>3. WritersInv
  BY DEF Init, WritersInv, Exists
<1> QED
  BY <1>1, <1>2, <1>3 DEF IndInv

LEMMA StartInd ==
  ASSUME ResumeAssumption, IndInv, NEW w \in {"stripe", "direct", "restore"},
         NEW D \in SUBSET Store, w = "direct" \/ D = Store, StartRun(w, D)
  PROVE  IndInv'
<1>1. /\ TypeOK /\ WritersInv
  BY DEF IndInv
<1>2. /\ way' = w /\ dest' = D /\ result' = "none" /\ left' = Unwhole /\ UNCHANGED file
      /\ phase' = IF w = "direct" THEN "on" ELSE "listing"
      /\ Fresh
  BY DEF StartRun
<1>3. /\ listed' = {} /\ gone' = {} /\ begun' = {} /\ failed' = {}
      /\ \A h \in Hash : known'[h] = {}
      /\ \A i \in Inst : todo'[i] = {} /\ open'[i] = {}
  BY <1>2, FreshType
<1>4. TypeOK'
  BY <1>1, StartType
<1>5. PhaseInv'
  BY <1>2, <1>3 DEF PhaseInv
<1>6. WritersInv'
  BY <1>1, <1>2, <1>3 DEF WritersInv, Exists
<1>7. KnownInv'
  BY <1>2, <1>3 DEF KnownInv
<1>8. LockInv'
  BY <1>2 DEF LockInv
<1>9. DataInv'
  <2>1. \A s \in Store, h \in Hash : Exists(s, h)' => <<s, h>> \in left' \/ Whole(s, h)'
    BY <1>2 DEF Unwhole, Exists, Whole, Full
  <2> QED
    BY <1>3, <2>1 DEF DataInv, Covered
<1>10. OkMeansWritten'
  BY <1>2 DEF OkMeansWritten
<1> QED
  BY <1>4, <1>5, <1>6, <1>7, <1>8, <1>9, <1>10 DEF IndInv

LEMMA OverInd ==
  ASSUME ResumeAssumption, IndInv, NEW r \in {"ok", "error", "killed"}, Over(r),
         UNCHANGED nfaults \/ Fault,
         OkMeansWritten'
  PROVE  IndInv'
<1>1. TypeOK /\ WritersInv
  BY DEF IndInv
<1>2. phase' = "off" /\ UNCHANGED file /\ Fresh
  BY DEF Over
<1>3. /\ gone' = {} /\ begun' = {} /\ failed' = {}
      /\ \A i \in Inst : todo'[i] = {} /\ open'[i] = {}
  BY <1>2, FreshType
<1>4. TypeOK'
  BY <1>1, OverType
<1>5. PhaseInv'
  BY <1>2, <1>3 DEF PhaseInv
<1>6. WritersInv'
  BY <1>1, <1>2, <1>3 DEF WritersInv, Exists
<1>7. KnownInv' /\ LockInv' /\ DataInv'
  BY <1>2 DEF KnownInv, LockInv, DataInv
<1> QED
  BY <1>4, <1>5, <1>6, <1>7 DEF IndInv

\* A run that ends with an error, or killed.
LEMMA FailInd ==
  ASSUME ResumeAssumption, IndInv, NEW r \in {"error", "killed"}, Over(r),
         UNCHANGED nfaults \/ Fault
  PROVE  IndInv'
<1>1. OkMeansWritten'
  BY DEF Over, OkMeansWritten
<1> QED
  BY <1>1, OverInd

\* A run that ends well: nothing is open, so that covered is whole.
LEMMA FinishInd == ASSUME ResumeAssumption, IndInv, Finish PROVE IndInv'
<1>1. /\ TypeOK /\ PhaseInv /\ WritersInv /\ KnownInv /\ DataInv
      /\ phase = "on" /\ failed = {} /\ Over("ok") /\ UNCHANGED nfaults /\ Done
  BY DEF IndInv, Finish
<1>2. UNCHANGED <<file, way, dest, left>> /\ result' = "ok"
  BY <1>1 DEF Over
<1>3. way # "restore" => begun = Inst /\ \A i \in Inst : todo[i] = {} /\ open[i] = {}
  BY <1>1 DEF Done, Busy
<1>4. way # "restore" => \A s \in Store, h \in Hash : Covered(s, h) => Whole(s, h)
  BY <1>3 DEF Covered, Right
<1>5. /\ dest \in SUBSET Store /\ \A i \in Inst : HashOf[i] \in Hash
      /\ known \in [Hash -> SUBSET Store] /\ way \in {"stripe", "direct", "restore"}
  BY <1>1 DEF TypeOK, ResumeAssumption
<1>6. way = "direct" => \A i \in Inst : \A s \in dest : Whole(s, HashOf[i])
  BY <1>1, <1>3, <1>4, <1>5 DEF DataInv
<1>7. way = "stripe" => Unwhole \subseteq left
  BY <1>1, <1>4 DEF DataInv, Unwhole
<1>8. ASSUME way = "stripe", NEW i \in Inst
      PROVE  Cardinality({s \in Store : Exists(s, HashOf[i])}) >= Min
  <2> DEFINE E == {s \in Store : Exists(s, HashOf[i])}
  <2>1. Cardinality(known[HashOf[i]]) >= Min
    <3>1. known[HashOf[i]] \cup todo[i] \cup open[i] = known[HashOf[i]]
      BY <1>3, <1>8
    <3> QED
      BY <1>1, <1>3, <1>8, <3>1 DEF DataInv
  <2>2. known[HashOf[i]] \subseteq E
    BY <1>1, <1>5, <1>8 DEF KnownInv
  <2>3. IsFiniteSet(E) /\ IsFiniteSet(known[HashOf[i]])
    BY <1>5, FS_Subset DEF ResumeAssumption
  <2>4. Cardinality(known[HashOf[i]]) <= Cardinality(E) /\ Cardinality(E) \in Nat
        /\ Cardinality(known[HashOf[i]]) \in Nat
    BY <2>2, <2>3, FS_Subset, FS_CardinalityType
  <2> QED
    BY <2>1, <2>4 DEF ResumeAssumption
<1>9. OkMeansWritten'
  BY <1>2, <1>6, <1>7, <1>8 DEF OkMeansWritten, Unwhole, Exists, Whole, Full
<1> QED
  BY <1>1, <1>9, OverInd

LEMMA ListInd ==
  ASSUME ResumeAssumption, IndInv, NEW s \in Store, List(s)
  PROVE  IndInv'
<1>1. /\ TypeOK /\ PhaseInv /\ WritersInv /\ KnownInv /\ DataInv
      /\ phase = "listing" /\ listed' = listed \cup {s}
      /\ phase' = IF listed' = dest THEN "on" ELSE "listing"
      /\ UNCHANGED <<file, way, dest, gone, begun, todo, open, off, failed, result, left>>
  BY DEF IndInv, List
<1>2. /\ begun = {} /\ failed = {} /\ gone = {} /\ way # "direct" /\ result = "none"
      /\ dest = Store
      /\ \A i \in Inst : todo[i] = {} /\ open[i] = {}
      /\ known \in [Hash -> SUBSET Store]
  BY <1>1 DEF PhaseInv, WritersInv, TypeOK
<1>3. /\ \A h \in Hash : known[h] \subseteq known'[h] /\ known'[h] \subseteq known[h] \cup {s}
      /\ \A h \in Hash : s \in known'[h] /\ s \notin known[h] => Exists(s, h)
      /\ \A h \in Hash : Exists(s, h) =>
           s \in known'[h] \/ (Kind[s] = "cp" /\ <<s, h>> \in missed')
      /\ missed \subseteq missed'
  BY <1>1, ListFacts
<1>4. TypeOK'
  BY <1>1, ListType
<1>5. PhaseInv'
  BY <1>1, <1>2 DEF PhaseInv
<1>6. WritersInv'
  BY <1>1 DEF WritersInv, Exists
<1>7. KnownInv'
  <2>1. ASSUME NEW t \in listed', NEW h \in Hash, Exists(t, h)'
        PROVE  t \in known'[h] \/ PassedOver(t, h)'
    <3>1. Exists(t, h)
      BY <1>1, <2>1 DEF Exists
    <3>2. CASE t = s
      BY <1>3, <3>1, <3>2 DEF PassedOver
    <3>3. CASE t \in listed
      BY <1>1, <1>3, <3>1, <3>3 DEF KnownInv, PassedOver
    <3> QED
      BY <1>1, <3>2, <3>3
  <2>2. way = "stripe" => \A h \in Hash : \A t \in known'[h] : Exists(t, h)'
    BY <1>1, <1>2, <1>3 DEF KnownInv, Exists
  <2> QED
    BY <1>1, <2>1, <2>2 DEF KnownInv
<1>8. LockInv'
  <2>1. ASSUME phase' = "on"
        PROVE  \A t \in Store, h \in Hash : Whole(t, h)' => t \in known'[h] \/ Kind[t] = "cp"
    <3>1. listed \cup {s} = Store
      BY <1>1, <1>2, <2>1
    <3>2. ASSUME NEW t \in Store, NEW h \in Hash, Whole(t, h)'
          PROVE  t \in known'[h] \/ Kind[t] = "cp"
      <4>1. Exists(t, h)
        BY <1>1, <3>2, FullIsFile DEF Whole, Exists, Full
      <4>2. t = s \/ t \in known[h] \/ Kind[t] = "cp"
        BY <1>1, <3>1, <4>1 DEF KnownInv, PassedOver
      <4> QED
        BY <1>2, <1>3, <4>1, <4>2
    <3> QED
      BY <3>2
  <2> QED
    BY <1>1, <1>2, <2>1 DEF LockInv, Busy
<1>9. DataInv'
  <2>1. \A t \in Store, h \in Hash : Exists(t, h)' => <<t, h>> \in left \/ Covered(t, h)
    BY <1>1, <1>2 DEF DataInv, Exists
  <2>2. \A t \in Store, h \in Hash : Covered(t, h)' <=> Covered(t, h)
    BY <1>1 DEF Covered, Whole, Full, Right
  <2> QED
    BY <1>1, <1>2, <2>1, <2>2 DEF DataInv
<1>10. OkMeansWritten'
  BY <1>1, <1>2 DEF OkMeansWritten
<1> QED
  BY <1>4, <1>5, <1>6, <1>7, <1>8, <1>9, <1>10 DEF IndInv

-----------------------------------------------------------------------------
(* The steps of an instance.                                               *)

LEMMA PlanInd ==
  ASSUME ResumeAssumption, IndInv, NEW i \in Inst, Plan(i)
  PROVE  IndInv'
<1> DEFINE h == HashOf[i]
<1>1. /\ TypeOK /\ PhaseInv /\ WritersInv /\ KnownInv /\ LockInv /\ DataInv
      /\ phase = "on" /\ way = "stripe" /\ i \notin begun /\ begun' = begun \cup {i}
      /\ ~Locked(h)
      /\ UNCHANGED <<file, phase, way, dest, listed, missed, result, left, known, gone, open,
                     off, failed>>
  BY DEF IndInv, Plan, Begins, runVars
<1>2. PICK jobs \in SUBSET (Usable \ known[h]) :
        /\ Cardinality(jobs) = Missing(h)
        /\ todo' = [todo EXCEPT ![i] = jobs]
  BY DEF Plan
<1>3. /\ todo' \in [Inst -> SUBSET Store] /\ h \in Hash /\ known \in [Hash -> SUBSET Store]
      /\ \A j \in Inst : todo'[j] = IF j = i THEN jobs ELSE todo[j]
  BY <1>1, <1>2 DEF TypeOK, Usable, ResumeAssumption
<1> HIDE DEF h
<1>4. TypeOK'
  BY <1>1, <1>3 DEF TypeOK, Plan
<1>5. PhaseInv' /\ KnownInv'
  BY <1>1 DEF PhaseInv, KnownInv, PassedOver, Exists
<1>6. WritersInv'
  BY <1>1, <1>3 DEF WritersInv, Exists
<1>7. \A j \in Inst : HashOf[j] = h => todo[j] = {} /\ open[j] = {}
  BY <1>1 DEF Locked, Busy, WritersInv
<1>8. LockInv'
  <2>1. \A j, k \in Inst : Busy(j)' /\ Busy(k)' /\ HashOf[j] = HashOf[k] => j = k
    <3>1. \A j \in Inst : j # i => (Busy(j)' <=> Busy(j))
      BY <1>1, <1>3 DEF Busy
    <3>2. \A j \in Inst : HashOf[j] = h => ~Busy(j)
      BY <1>7 DEF Busy
    <3>3. \A j, k \in Inst : Busy(j) /\ Busy(k) /\ HashOf[j] = HashOf[k] => j = k
      BY <1>1 DEF LockInv
    <3> QED
      BY <3>1, <3>2, <3>3 DEF h
  <2>2. \A s \in Store, g \in Hash :
          Whole(s, g) => \/ s \in known[g] \/ s \in gone \/ Kind[s] = "cp"
                         \/ \E j \in Inst : HashOf[j] = g /\ s \in open[j]
    BY <1>1 DEF LockInv
  <2>3. ASSUME NEW s \in jobs, Whole(s, h) PROVE Kind[s] = "cp"
    <3>1. s \in Store /\ s \notin known[h] /\ s \notin gone
      BY <2>3 DEF Usable
    <3>2. \A j \in Inst : HashOf[j] = h => s \notin open[j]
      BY <1>7
    <3> QED
      BY <1>3, <2>2, <2>3, <3>1, <3>2
  <2>4. \A j \in Inst : \A s \in todo'[j] : Whole(s, HashOf[j]) => Kind[s] = "cp"
    BY <1>1, <1>3, <2>3 DEF LockInv, h
  <2> QED
    BY <1>1, <2>1, <2>2, <2>4 DEF LockInv, Whole, Full
<1>9. DataInv'
  <2> SUFFICES ASSUME failed = {} PROVE DataInv'
    BY <1>1 DEF DataInv
  <2>1. gone = {} /\ Usable = Store /\ known[h] \cap Usable = known[h]
    BY <1>1, <1>3 DEF PhaseInv, Usable
  <2>2. Cardinality(known[h] \cup jobs) >= Min
    <3>1. /\ IsFiniteSet(known[h]) /\ IsFiniteSet(jobs) /\ known[h] \cap jobs = {}
          /\ Min \in Nat
      BY <1>3, FS_Subset DEF ResumeAssumption, Usable
    <3>2. /\ Cardinality(known[h] \cup jobs) = Cardinality(known[h]) + Cardinality(jobs)
          /\ Cardinality(known[h]) \in Nat /\ Cardinality(jobs) \in Nat
      <4>1. Cardinality(known[h] \cup jobs)
              = Cardinality(known[h]) + Cardinality(jobs) - Cardinality(known[h] \cap jobs)
        BY <3>1, FS_Union
      <4>2. Cardinality(known[h] \cap jobs) = 0
        BY <3>1, FS_EmptySet
      <4>3. Cardinality(known[h]) \in Nat /\ Cardinality(jobs) \in Nat
        BY <3>1, FS_CardinalityType
      <4> QED
        BY <4>1, <4>2, <4>3
    <3>3. Cardinality(jobs) = IF Cardinality(known[h]) >= Min THEN 0
                              ELSE Min - Cardinality(known[h])
      BY <1>2, <2>1 DEF Missing, Lacking
    <3> QED
      BY <3>1, <3>2, <3>3
  <2>3. \A j \in begun' : Cardinality(known[HashOf[j]] \cup todo'[j] \cup open[j]) >= Min
    <3>1. known[h] \cup todo'[i] \cup open[i] = known[h] \cup jobs
      BY <1>3, <1>7 DEF h
    <3>2. ASSUME NEW j \in begun', j # i
          PROVE  Cardinality(known[HashOf[j]] \cup todo'[j] \cup open[j]) >= Min
      <4>1. j \in begun /\ todo'[j] = todo[j]
        BY <1>1, <1>3, <3>2 DEF TypeOK
      <4> QED
        BY <1>1, <4>1 DEF DataInv
    <3> QED
      BY <2>2, <3>1, <3>2 DEF h
  <2>4. \A s \in Store, g \in Hash : Exists(s, g) => <<s, g>> \in left \/ Covered(s, g)
    BY <1>1 DEF DataInv
  <2>5. \A s \in Store, g \in Hash : (Exists(s, g)' <=> Exists(s, g)) /\ (Covered(s, g)' <=> Covered(s, g))
    BY <1>1 DEF Exists, Covered, Whole, Full, Right
  <2> QED
    BY <1>1, <2>3, <2>4, <2>5 DEF DataInv
<1>10. OkMeansWritten'
  BY <1>1 DEF PhaseInv, OkMeansWritten
<1> QED
  BY <1>4, <1>5, <1>6, <1>8, <1>9, <1>10 DEF IndInv

LEMMA PlanShortInd ==
  ASSUME ResumeAssumption, IndInv, NEW i \in Inst, PlanShort(i)
  PROVE  IndInv'
<1>1. /\ TypeOK /\ PhaseInv /\ WritersInv /\ KnownInv /\ LockInv
      /\ phase = "on" /\ way = "stripe" /\ begun' = begun \cup {i}
      /\ failed' = failed \cup {i} /\ stuck' = stuck \cup {i}
      /\ UNCHANGED <<file, phase, way, dest, listed, missed, result, left, known, gone,
                     todo, open, off, got, nfaults>>
  BY DEF IndInv, PlanShort, Begins, runVars
<1>2. TypeOK'
  BY <1>1 DEF TypeOK
<1>3. PhaseInv' /\ KnownInv'
  BY <1>1 DEF PhaseInv, KnownInv, PassedOver, Exists
<1>4. WritersInv'
  BY <1>1 DEF WritersInv, Exists
<1>5. LockInv'
  <2>1. /\ \A t \in Store, g \in Hash : Whole(t, g)' <=> Whole(t, g)
        /\ \A j \in Inst : (Busy(j)' <=> Busy(j)) /\ HashOf[j] \in Hash /\ todo[j] \subseteq Store
    BY <1>1 DEF Whole, Full, Busy, TypeOK, ResumeAssumption
  <2> QED
    BY <1>1, <2>1 DEF LockInv
<1>6. DataInv' /\ OkMeansWritten'
  BY <1>1 DEF DataInv, PhaseInv, OkMeansWritten
<1> QED
  BY <1>2, <1>3, <1>4, <1>5, <1>6 DEF IndInv

LEMMA PutInd ==
  ASSUME ResumeAssumption, IndInv, NEW i \in Inst, Put(i)
  PROVE  IndInv'
<1>1. /\ TypeOK /\ PhaseInv /\ WritersInv /\ KnownInv /\ DataInv
      /\ phase = "on" /\ way = "direct" /\ i \notin begun /\ begun' = begun \cup {i}
      /\ todo' = [todo EXCEPT ![i] = dest]
      /\ UNCHANGED <<file, phase, way, dest, listed, missed, result, left, known, gone, open, off,
                     failed, stuck, got, nfaults>>
  BY DEF IndInv, Put, Begins, runVars
<1>2. /\ todo' \in [Inst -> SUBSET Store]
      /\ \A j \in Inst : todo'[j] = IF j = i THEN dest ELSE todo[j]
  BY <1>1 DEF TypeOK
<1>3. TypeOK'
  BY <1>1, <1>2 DEF TypeOK
<1>4. PhaseInv' /\ KnownInv' /\ LockInv'
  BY <1>1 DEF PhaseInv, KnownInv, LockInv, PassedOver, Exists
<1>5. WritersInv'
  BY <1>1, <1>2 DEF WritersInv, Exists
<1>6. DataInv'
  <2> SUFFICES ASSUME failed = {} PROVE DataInv'
    BY <1>1 DEF DataInv
  <2>1. /\ \A s \in Store, g \in Hash : Exists(s, g) => <<s, g>> \in left \/ Covered(s, g)
        /\ \A j \in begun : \A s \in dest \ todo[j] : Covered(s, HashOf[j])
    BY <1>1 DEF DataInv
  <2>2. \A s \in Store, g \in Hash : (Exists(s, g)' <=> Exists(s, g)) /\ (Covered(s, g)' <=> Covered(s, g))
    BY <1>1 DEF Exists, Covered, Whole, Full, Right
  <2>3. ASSUME NEW j \in begun', NEW s \in dest \ todo'[j] PROVE Covered(s, HashOf[j])'
    <3>1. j \in begun /\ todo'[j] = todo[j]
      BY <1>1, <1>2, <2>3 DEF TypeOK
    <3>2. s \in Store /\ HashOf[j] \in Hash
      BY <1>1, <2>3, <3>1 DEF TypeOK, ResumeAssumption
    <3> QED
      BY <2>1, <2>2, <2>3, <3>1, <3>2
  <2> QED
    BY <1>1, <2>1, <2>2, <2>3 DEF DataInv
<1>7. OkMeansWritten'
  BY <1>1 DEF PhaseInv, OkMeansWritten
<1> QED
  BY <1>3, <1>4, <1>5, <1>6, <1>7 DEF IndInv

\* Opening a file, on a store that has it or for which it is created or emptied.
LEMMA OpenInd ==
  ASSUME ResumeAssumption, IndInv, NEW i \in Inst, NEW s \in Store, Opens(i, s),
         (Exists(s, HashOf[i]) /\ UNCHANGED file) \/ SetFile(s, HashOf[i], <<>>)
  PROVE  IndInv'
<1> DEFINE h == HashOf[i]
<1>1. /\ TypeOK /\ PhaseInv /\ WritersInv /\ KnownInv /\ LockInv /\ DataInv
      /\ phase = "on" /\ s \in todo[i] /\ h \in Hash
      /\ file \in [Store -> [Hash -> File \cup {Absent}]] /\ Absent \notin File
      /\ UNCHANGED <<phase, way, dest, listed, missed, result, left, known, gone, begun, failed>>
  BY DEF IndInv, Opens, runVars, TypeOK, ResumeAssumption, File
<1>2. /\ \A j \in Inst : /\ todo'[j] = IF j = i THEN todo[i] \ {s} ELSE todo[j]
                         /\ open'[j] = IF j = i THEN open[i] \cup {s} ELSE open[j]
                         /\ \A t \in Store : off'[j][t] = IF j = i /\ t = s THEN 0 ELSE off[j][t]
      /\ open' \in [Inst -> SUBSET Store] /\ todo' \in [Inst -> SUBSET Store]
  <2>1. /\ todo \in [Inst -> SUBSET Store] /\ open \in [Inst -> SUBSET Store]
        /\ off \in [Inst -> [Store -> Nat]]
    BY <1>1 DEF TypeOK
  <2>2. /\ todo' = [todo EXCEPT ![i] = todo[i] \ {s}]
        /\ open' = [open EXCEPT ![i] = open[i] \cup {s}]
        /\ off' = [off EXCEPT ![i][s] = 0]
    BY DEF Opens
  <2> QED
    BY <2>1, <2>2
<1>3. /\ file'[s][h] \in File /\ (file'[s][h] = <<>> \/ file'[s][h] = file[s][h])
      /\ \A t \in Store, g \in Hash : t # s \/ g # h => file'[t][g] = file[t][g]
  <2>1. <<>> \in File
    BY DEF File
  <2>2. CASE SetFile(s, h, <<>>)
    BY <1>1, <2>1, <2>2, SetFileType
  <2>3. CASE Exists(s, h) /\ UNCHANGED file
    BY <1>1, <2>3 DEF Exists
  <2> QED
    BY <2>2, <2>3
<1>4. TypeOK'
  BY <1>1, OpenType
<1> HIDE DEF h
<1>5. /\ \A t \in Store, g \in Hash : Exists(t, g) => Exists(t, g)'
      /\ \A t \in Store, g \in Hash : Exists(t, g)' => Exists(t, g) \/ (t = s /\ g = h)
      /\ Exists(s, h)'
      /\ \A t \in Store, g \in Hash : Whole(t, g)' => Whole(t, g)
  <2>1. Full(h) # <<>>
    BY <1>1, FullIsFile
  <2>2. file'[s][h] # Absent
    BY <1>1, <1>3
  <2> QED
    BY <1>3, <2>1, <2>2 DEF Exists, Whole, Full
<1>6. PhaseInv'
  BY <1>1 DEF PhaseInv
<1>7. WritersInv'
  <2>1. \A j \in Inst : j \notin begun' => todo'[j] = {} /\ open'[j] = {}
    BY <1>1, <1>2 DEF WritersInv
  <2>2. \A j \in Inst : todo'[j] \cap open'[j] = {}
    BY <1>2 DEF WritersInv, IndInv
  <2>3. \A j \in Inst : \A t \in open'[j] : Exists(t, HashOf[j])'
    <3>1. ASSUME NEW j \in Inst, NEW t \in open'[j] PROVE Exists(t, HashOf[j])'
      <4>1. t \in Store /\ HashOf[j] \in Hash
        BY <1>2, <3>1 DEF ResumeAssumption
      <4>2. t \in open[j] \/ (j = i /\ t = s)
        BY <1>2, <3>1
      <4>3. t \in open[j] => Exists(t, HashOf[j])
        BY <1>1 DEF WritersInv
      <4> QED
        BY <1>5, <4>1, <4>2, <4>3 DEF h
    <3> QED
      BY <3>1
  <2>4. ASSUME NEW t \in Store, NEW g \in Hash, Exists(t, g)'
        PROVE  Len(file'[t][g]) <= Size[g]
    <3>1. Size[g] \in Nat /\ Size[g] > 0 /\ Len(<<>>) = 0
      BY DEF ResumeAssumption
    <3>2. Exists(t, g) => Len(file[t][g]) <= Size[g]
      BY <1>1 DEF WritersInv
    <3>3. file'[t][g] = <<>> \/ file'[t][g] = file[t][g]
      BY <1>3
    <3>4. file'[t][g] = file[t][g] => Exists(t, g)
      BY <2>4 DEF Exists
    <3> QED
      BY <3>1, <3>2, <3>3, <3>4
  <2> QED
    BY <2>1, <2>2, <2>3, <2>4 DEF WritersInv
<1>8. KnownInv'
  BY <1>1, <1>5 DEF KnownInv, TypeOK
<1>9. LockInv'
  <2> SUFFICES ASSUME way = "stripe" PROVE LockInv'
    BY <1>1 DEF LockInv
  <2>1. \A j \in Inst : Busy(j)' => Busy(j)
    BY <1>1, <1>2 DEF Busy
  <2>2. \A t \in Store, g \in Hash :
          Whole(t, g)' => \/ t \in known[g] \/ t \in gone \/ Kind[t] = "cp"
                          \/ \E j \in Inst : HashOf[j] = g /\ t \in open'[j]
    <3>1. \A t \in Store, g \in Hash :
            Whole(t, g) => \/ t \in known[g] \/ t \in gone \/ Kind[t] = "cp"
                           \/ \E j \in Inst : HashOf[j] = g /\ t \in open[j]
      BY <1>1 DEF LockInv
    <3>2. \A j \in Inst : open[j] \subseteq open'[j]
      BY <1>2
    <3> QED
      BY <1>5, <3>1, <3>2
  <2>3. \A j \in Inst : \A t \in todo'[j] : Whole(t, HashOf[j])' => Kind[t] = "cp"
    <3>1. ASSUME NEW j \in Inst, NEW t \in todo'[j]
          PROVE  Whole(t, HashOf[j])' => Kind[t] = "cp"
      <4>1. t \in Store /\ HashOf[j] \in Hash /\ t \in todo[j]
        BY <1>1, <1>2, <3>1 DEF ResumeAssumption
      <4>2. Whole(t, HashOf[j]) => Kind[t] = "cp"
        BY <1>1, <4>1 DEF LockInv
      <4> QED
        BY <1>5, <4>1, <4>2
    <3> QED
      BY <3>1
  <2> QED
    BY <1>1, <2>1, <2>2, <2>3 DEF LockInv
<1>10. DataInv'
  <2> SUFFICES ASSUME failed = {} PROVE DataInv'
    BY <1>1 DEF DataInv
  <2>1. Covered(s, h)'
    <3>1. s \in open'[i] /\ off'[i][s] = 0 /\ file'[s][h] \in File
      BY <1>2, <1>3
    <3>2. Len(file'[s][h]) \in Nat /\ 1..0 = {}
      BY <3>1 DEF File
    <3>3. Right(i, s)'
      BY <3>1, <3>2 DEF Right, h
    <3> QED
      BY <3>3 DEF Covered, h
  <2>2. ASSUME NEW t \in Store, NEW g \in Hash, Covered(t, g) PROVE Covered(t, g)'
    <3>1. CASE t = s /\ g = h
      BY <2>1, <3>1
    <3>2. CASE ~(t = s /\ g = h)
      <4>1. file'[t][g] = file[t][g]
        BY <1>3, <3>2
      <4>2. Whole(t, g) => Whole(t, g)'
        BY <4>1 DEF Whole, Full
      <4>3. ASSUME NEW j \in Inst, HashOf[j] = g, Right(j, t) PROVE Right(j, t)'
        <5>1. t \in open'[j] /\ off'[j][t] = off[j][t]
          BY <1>2, <3>2, <4>3 DEF Right, h
        <5> QED
          BY <4>1, <4>3, <5>1 DEF Right
      <4> QED
        BY <2>2, <4>2, <4>3 DEF Covered
    <3> QED
      BY <3>1, <3>2
  <2>3. \A t \in Store, g \in Hash : Exists(t, g)' => <<t, g>> \in left \/ Covered(t, g)'
    BY <1>1, <1>5, <2>1, <2>2 DEF DataInv
  <2>4. ASSUME way = "direct", NEW j \in begun, NEW t \in dest \ todo'[j]
        PROVE  Covered(t, HashOf[j])'
    <3>1. j \in Inst /\ t \in Store /\ HashOf[j] \in Hash
      BY <1>1 DEF TypeOK, ResumeAssumption
    <3>2. CASE t = s /\ HashOf[j] = h
      BY <2>1, <3>2
    <3>3. CASE ~(t = s /\ HashOf[j] = h)
      <4>1. t \in dest \ todo[j]
        BY <1>2, <2>4, <3>1, <3>3 DEF h
      <4> QED
        BY <1>1, <2>2, <2>4, <3>1, <4>1 DEF DataInv
    <3> QED
      BY <3>2, <3>3
  <2>5. way = "stripe" =>
          \A j \in begun : Cardinality(known[HashOf[j]] \cup todo'[j] \cup open'[j]) >= Min
    <3>1. \A j \in begun : j \in Inst
      BY <1>1 DEF TypeOK
    <3>2. \A j \in Inst : known[HashOf[j]] \cup todo'[j] \cup open'[j]
                           = known[HashOf[j]] \cup todo[j] \cup open[j]
      BY <1>1, <1>2
    <3> QED
      BY <1>1, <3>1, <3>2 DEF DataInv
  <2> QED
    BY <1>1, <2>3, <2>4, <2>5 DEF DataInv
<1>11. OkMeansWritten'
  BY <1>1 DEF PhaseInv, OkMeansWritten
<1> QED
  BY <1>4, <1>6, <1>7, <1>8, <1>9, <1>10, <1>11 DEF IndInv

LEMMA WriteInd ==
  ASSUME ResumeAssumption, IndInv, NEW i \in Inst, NEW s \in Store, Write(i, s)
  PROVE  IndInv'
<1> DEFINE h == HashOf[i]
           f == file[s][h]
           n == off[i][s]
<1>1. /\ TypeOK /\ PhaseInv /\ WritersInv /\ KnownInv /\ LockInv /\ DataInv
      /\ phase = "on"
      /\ file \in [Store -> [Hash -> File \cup {Absent}]] /\ Absent \notin File
      /\ UNCHANGED <<phase, way, dest, listed, missed, result, left, known, gone, begun,
                     todo, open, failed>>
  BY DEF IndInv, Write, runVars, TypeOK, ResumeAssumption, File
<1>2. /\ h \in Hash /\ f \in File /\ n \in Nat /\ n < Size[h]
      /\ s \in open[i] /\ i \in begun
      /\ file'[s][h] = Written(f, n) /\ file'[s][h] \in File
      /\ \A t \in Store, g \in Hash : t # s \/ g # h => file'[t][g] = file[t][g]
      /\ \A j \in Inst : \A t \in Store : off'[j][t] = IF j = i /\ t = s THEN n + 1 ELSE off[j][t]
  BY <1>1, WriteFacts
<1>3. TypeOK'
  BY <1>1, WriteType
<1> HIDE DEF h, f, n
<1>4. /\ \A t \in Store, g \in Hash : Exists(t, g)' <=> Exists(t, g)
      /\ \A t \in Store, g \in Hash : Whole(t, g)' => Whole(t, g) \/ (t = s /\ g = h)
  BY <1>1, <1>2 DEF Exists, Whole, Full, f
<1>5. /\ Len(f) \in Nat /\ Len(file'[s][h]) = IF Len(f) > n THEN Len(f) ELSE n + 1
      /\ file'[s][h][n + 1] = "right" /\ n + 1 <= Len(file'[s][h]) /\ Len(f) <= Len(file'[s][h])
      /\ \A b \in 1..Len(f) : f[b] = "right" => file'[s][h][b] = "right"
  <2>1. Len(f) \in Nat
    BY <1>2 DEF File
  <2>2. Len(file'[s][h]) = IF Len(f) > n THEN Len(f) ELSE n + 1
    BY <1>2, WrittenIsFile
  <2>3. n + 1 <= Len(file'[s][h]) /\ n + 1 \in 1..Len(file'[s][h]) /\ Len(f) <= Len(file'[s][h])
    BY <1>2, <2>1, <2>2
  <2>4. file'[s][h][n + 1] = "right"
    BY <1>2, <2>3, WrittenIsFile
  <2>5. \A b \in 1..Len(f) : f[b] = "right" => file'[s][h][b] = "right"
    BY <1>2, WrittenKeeps
  <2> QED
    BY <2>1, <2>2, <2>3, <2>4, <2>5
<1>6. PhaseInv' /\ KnownInv'
  BY <1>1, <1>4 DEF PhaseInv, KnownInv, TypeOK
<1>7. WritersInv'
  <2>1. /\ \A j \in Inst : j \notin begun => todo[j] = {} /\ open[j] = {}
        /\ \A j \in Inst : todo[j] \cap open[j] = {}
        /\ \A j \in Inst : \A t \in open[j] : Exists(t, HashOf[j])
    BY <1>1 DEF WritersInv
  <2>2. \A j \in Inst : \A t \in open[j] : Exists(t, HashOf[j])'
    BY <1>1, <1>4, <2>1 DEF TypeOK, ResumeAssumption
  <2>3. ASSUME NEW t \in Store, NEW g \in Hash, Exists(t, g)'
        PROVE  Len(file'[t][g]) <= Size[g]
    <3>1. Exists(t, g) /\ Len(file[t][g]) <= Size[g] /\ Size[g] \in Nat
      BY <1>1, <1>4, <2>3 DEF WritersInv, ResumeAssumption
    <3>2. CASE t = s /\ g = h
      BY <1>2, <1>5, <3>1, <3>2 DEF f
    <3>3. CASE t # s \/ g # h
      BY <1>2, <3>1, <3>3
    <3> QED
      BY <3>2, <3>3
  <2> QED
    BY <1>1, <2>1, <2>2, <2>3 DEF WritersInv
<1>8. LockInv'
  <2> SUFFICES ASSUME way = "stripe" PROVE LockInv'
    BY <1>1 DEF LockInv
  <2>1. \A j, k \in Inst : Busy(j) /\ Busy(k) /\ HashOf[j] = HashOf[k] => j = k
    BY <1>1 DEF LockInv
  <2>2. \A t \in Store, g \in Hash :
          Whole(t, g)' => \/ t \in known[g] \/ t \in gone \/ Kind[t] = "cp"
                          \/ \E j \in Inst : HashOf[j] = g /\ t \in open[j]
    BY <1>1, <1>2, <1>4 DEF LockInv, h
  <2>3. ASSUME NEW j \in Inst, NEW t \in todo[j], Whole(t, HashOf[j])', Kind[t] # "cp"
        PROVE  FALSE
    <3>1. t \in Store /\ HashOf[j] \in Hash /\ ~Whole(t, HashOf[j])
      BY <1>1, <2>3 DEF LockInv, TypeOK, ResumeAssumption
    <3>2. t = s /\ HashOf[j] = h
      BY <1>4, <2>3, <3>1
    <3>3. Busy(j) /\ Busy(i)
      BY <1>2, <2>3 DEF Busy
    <3>4. j = i
      BY <2>1, <3>2, <3>3 DEF h
    <3> QED
      BY <1>1, <1>2, <2>3, <3>2, <3>4 DEF WritersInv
  <2>4. \A j \in Inst : Busy(j)' <=> Busy(j)
    BY <1>1 DEF Busy
  <2>5. \A j \in Inst : \A t \in todo'[j] : Whole(t, HashOf[j])' => Kind[t] = "cp"
    BY <1>1, <2>3
  <2> QED
    BY <1>1, <2>1, <2>2, <2>4, <2>5 DEF LockInv
<1>9. DataInv'
  <2> SUFFICES ASSUME failed = {} PROVE DataInv'
    BY <1>1 DEF DataInv
  <2>1. ASSUME NEW t \in Store, NEW g \in Hash, Covered(t, g) PROVE Covered(t, g)'
    <3>1. Whole(t, g) => Whole(t, g)'
      <4>1. CASE t = s /\ g = h
        <5>1. f = Full(h) => Written(f, n) = Full(h)
          BY <1>2, WrittenKeepsFull
        <5> QED
          BY <1>2, <4>1, <5>1 DEF Whole, Full, f
      <4>2. CASE ~(t = s /\ g = h)
        BY <1>2, <4>2 DEF Whole, Full
      <4> QED
        BY <4>1, <4>2
    <3>2. ASSUME NEW j \in Inst, HashOf[j] = g, Right(j, t) PROVE Right(j, t)'
      <4>1. /\ t \in open'[j] /\ off[j][t] <= Len(file[t][g]) /\ off[j][t] \in Nat
            /\ \A b \in 1..off[j][t] : file[t][g][b] = "right"
        BY <1>1, <3>2 DEF Right, TypeOK
      <4>2. CASE ~(t = s /\ g = h)
        <5>1. file'[t][g] = file[t][g] /\ off'[j][t] = off[j][t]
          BY <1>2, <3>2, <4>2 DEF h
        <5> QED
          BY <3>2, <4>1, <5>1 DEF Right
      <4>3. CASE t = s /\ g = h
        <5>1. off'[j][t] = IF j = i THEN off[j][t] + 1 ELSE off[j][t]
          BY <1>2, <4>3 DEF n
        <5>2. off'[j][t] <= Len(file'[t][g])
          BY <1>5, <4>1, <4>3, <5>1 DEF f, n
        <5>3. \A b \in 1..off[j][t] : file'[t][g][b] = "right"
          BY <1>5, <4>1, <4>3 DEF f
        <5>4. j = i => file'[t][g][off[j][t] + 1] = "right"
          BY <1>5, <4>3 DEF n
        <5>5. ASSUME NEW b \in 1..off'[j][t] PROVE file'[t][g][b] = "right"
          <6>1. b \in 1..off[j][t] \/ (j = i /\ b = off[j][t] + 1)
            BY <4>1, <5>1
          <6> QED
            BY <5>3, <5>4, <6>1
        <5> QED
          BY <3>2, <4>1, <5>2, <5>5 DEF Right
      <4> QED
        BY <4>2, <4>3
    <3> QED
      BY <2>1, <3>1, <3>2 DEF Covered
  <2>2. \A t \in Store, g \in Hash : Exists(t, g)' => <<t, g>> \in left \/ Covered(t, g)'
    BY <1>1, <1>4, <2>1 DEF DataInv
  <2>3. ASSUME way = "direct", NEW j \in begun, NEW t \in dest \ todo[j]
        PROVE  Covered(t, HashOf[j])'
    <3>1. t \in Store /\ HashOf[j] \in Hash
      BY <1>1 DEF TypeOK, ResumeAssumption
    <3> QED
      BY <1>1, <2>1, <2>3, <3>1 DEF DataInv
  <2>4. way = "stripe" =>
          \A j \in begun : Cardinality(known[HashOf[j]] \cup todo[j] \cup open[j]) >= Min
    BY <1>1 DEF DataInv
  <2> QED
    BY <1>1, <2>2, <2>3, <2>4 DEF DataInv
<1>10. OkMeansWritten'
  BY <1>1 DEF PhaseInv, OkMeansWritten
<1> QED
  BY <1>3, <1>6, <1>7, <1>8, <1>9, <1>10 DEF IndInv

\* The registration of a copy leaves as many copies made or to be made.
LEMMA NotFewer ==
  ASSUME ResumeAssumption, NEW A \in SUBSET Store, NEW B \in SUBSET Store, A \subseteq B,
         Cardinality(A) >= Min
  PROVE  Cardinality(B) >= Min
<1>1. IsFiniteSet(B) /\ IsFiniteSet(A)
  BY FS_Subset DEF ResumeAssumption
<1>2. Cardinality(A) <= Cardinality(B) /\ Cardinality(A) \in Nat /\ Cardinality(B) \in Nat
  BY <1>1, FS_Subset, FS_CardinalityType
<1> QED
  BY <1>2 DEF ResumeAssumption

LEMMA EndWriteInd ==
  ASSUME ResumeAssumption, IndInv, NEW i \in Inst, NEW s \in Store, EndWrite(i, s)
  PROVE  IndInv'
<1> DEFINE h == HashOf[i]
<1>1. /\ TypeOK /\ PhaseInv /\ WritersInv /\ KnownInv /\ LockInv /\ DataInv
      /\ phase = "on" /\ s \in open[i] /\ off[i][s] = Size[h] /\ h \in Hash /\ Owned(i, s)
      /\ known \in [Hash -> SUBSET Store]
      /\ open \in [Inst -> SUBSET Store] /\ todo \in [Inst -> SUBSET Store]
      /\ UNCHANGED <<file, phase, way, dest, listed, missed, result, left, gone, begun,
                     todo, off, failed>>
  BY DEF IndInv, EndWrite, runVars, TypeOK, ResumeAssumption
<1>2. /\ \A j \in Inst : open'[j] = IF j = i THEN open[i] \ {s} ELSE open[j]
      /\ open' \in [Inst -> SUBSET Store]
  BY <1>1 DEF EndWrite
<1>3. /\ known' \in [Hash -> SUBSET Store]
      /\ way # "stripe" => known' = known
      /\ way = "stripe" =>
           \A g \in Hash : known'[g] = IF g = h THEN known[g] \cup {s} ELSE known[g]
  BY <1>1, OwnedFacts
<1>4. TypeOK'
  BY <1>1, EndWriteType
<1> HIDE DEF h
<1>5. \A g \in Hash : known[g] \subseteq known'[g]
  BY <1>3
<1>6. PhaseInv'
  BY <1>1 DEF PhaseInv
<1>7. KnownInv'
  <2>1. Exists(s, h) /\ \A t \in Store, g \in Hash : Exists(t, g)' <=> Exists(t, g)
    BY <1>1 DEF WritersInv, h, Exists
  <2>2. ASSUME way = "stripe", NEW g \in Hash, NEW t \in known'[g] PROVE Exists(t, g)'
    <3>1. t \in Store /\ (t \in known[g] \/ (t = s /\ g = h))
      BY <1>1, <1>3, <2>2
    <3>2. Exists(t, g)
      BY <1>1, <2>1, <2>2, <3>1 DEF KnownInv
    <3> QED
      BY <2>1, <3>1, <3>2
  <2> QED
    BY <1>1, <2>2 DEF KnownInv
<1>8. WritersInv'
  BY <1>1, <1>2 DEF WritersInv, Exists
<1>9. LockInv'
  <2> SUFFICES ASSUME way = "stripe" PROVE LockInv'
    BY <1>1 DEF LockInv
  <2>1. \A j \in Inst : Busy(j)' => Busy(j)
    BY <1>1, <1>2 DEF Busy
  <2>2. ASSUME NEW t \in Store, NEW g \in Hash, Whole(t, g)
        PROVE  \/ t \in known'[g] \/ t \in gone \/ Kind[t] = "cp"
               \/ \E j \in Inst : HashOf[j] = g /\ t \in open'[j]
    <3>1. CASE t \in known[g] \/ t \in gone \/ Kind[t] = "cp"
      BY <1>5, <3>1
    <3>2. CASE \E j \in Inst : HashOf[j] = g /\ t \in open[j]
      <4>1. PICK j \in Inst : HashOf[j] = g /\ t \in open[j]
        BY <3>2
      <4>2. CASE t = s /\ j = i
        BY <1>3, <4>1, <4>2 DEF h
      <4>3. CASE ~(t = s /\ j = i)
        BY <1>2, <4>1, <4>3
      <4> QED
        BY <4>2, <4>3
    <3> QED
      BY <1>1, <2>2, <3>1, <3>2 DEF LockInv
  <2>3. \A j \in Inst : \A t \in todo[j] : Whole(t, HashOf[j]) => Kind[t] = "cp"
    BY <1>1 DEF LockInv
  <2>4. \A t \in Store, g \in Hash : Whole(t, g)' <=> Whole(t, g)
    BY <1>1 DEF Whole, Full
  <2>5. \A j \in Inst : \A t \in todo[j] : Whole(t, HashOf[j])' => Kind[t] = "cp"
    BY <1>1, <2>3 DEF Whole, Full
  <2> QED
    BY <1>1, <2>1, <2>2, <2>4, <2>5 DEF LockInv
<1>10. DataInv'
  <2> SUFFICES ASSUME failed = {} PROVE DataInv'
    BY <1>1 DEF DataInv
  <2>1. ASSUME NEW t \in Store, NEW g \in Hash, Covered(t, g) PROVE Covered(t, g)'
    <3>1. CASE Whole(t, g)
      BY <1>1, <3>1 DEF Covered, Whole, Full
    <3>2. ASSUME NEW j \in Inst, HashOf[j] = g, Right(j, t) PROVE Covered(t, g)'
      <4>1. CASE t = s /\ j = i
        <5>1. g = h /\ off[i][s] <= Len(file[s][h]) /\ \A b \in 1..off[i][s] : file[s][h][b] = "right"
          BY <3>2, <4>1 DEF Right, h
        <5>2. file[s][h] \in File /\ Len(file[s][h]) <= Size[h]
          BY <1>1 DEF WritersInv, TypeOK, Exists, h
        <5>3. Len(file[s][h]) = Size[h]
          BY <1>1, <5>1, <5>2 DEF File, ResumeAssumption
        <5>4. file[s][h] = Full(h)
          BY <1>1, <5>1, <5>2, <5>3, RightIsFull
        <5> QED
          BY <1>1, <4>1, <5>1, <5>4 DEF Covered, Whole, Full
      <4>2. CASE ~(t = s /\ j = i)
        BY <1>1, <1>2, <3>2, <4>2 DEF Covered, Right
      <4> QED
        BY <4>1, <4>2
    <3> QED
      BY <2>1, <3>1, <3>2 DEF Covered
  <2>2. \A t \in Store, g \in Hash : Exists(t, g)' => <<t, g>> \in left \/ Covered(t, g)'
    BY <1>1, <2>1 DEF DataInv, Exists
  <2>3. ASSUME way = "direct", NEW j \in begun, NEW t \in dest \ todo[j]
        PROVE  Covered(t, HashOf[j])'
    <3>1. t \in Store /\ HashOf[j] \in Hash
      BY <1>1 DEF TypeOK, ResumeAssumption
    <3> QED
      BY <1>1, <2>1, <2>3, <3>1 DEF DataInv
  <2>4. ASSUME way = "stripe", NEW j \in begun
        PROVE  Cardinality(known'[HashOf[j]] \cup todo[j] \cup open'[j]) >= Min
    <3>1. j \in Inst /\ HashOf[j] \in Hash
      BY <1>1 DEF TypeOK, ResumeAssumption
    <3>2. Cardinality(known[HashOf[j]] \cup todo[j] \cup open[j]) >= Min
      BY <1>1, <2>4 DEF DataInv
    <3>3. known[HashOf[j]] \cup todo[j] \cup open[j] \subseteq known'[HashOf[j]] \cup todo[j] \cup open'[j]
      BY <1>2, <1>3, <2>4, <3>1 DEF h
    <3>4. /\ known[HashOf[j]] \cup todo[j] \cup open[j] \in SUBSET Store
          /\ known'[HashOf[j]] \cup todo[j] \cup open'[j] \in SUBSET Store
      BY <1>1, <1>2, <1>3, <3>1
    <3> QED
      BY <3>2, <3>3, <3>4, NotFewer
  <2> QED
    BY <1>1, <2>2, <2>3, <2>4 DEF DataInv
<1>11. OkMeansWritten'
  BY <1>1 DEF PhaseInv, OkMeansWritten
<1> QED
  BY <1>4, <1>6, <1>7, <1>8, <1>9, <1>10, <1>11 DEF IndInv

LEMMA RcloneInd ==
  ASSUME ResumeAssumption, IndInv, NEW i \in Inst, NEW s \in Store, RcloneCopy(i, s)
  PROVE  IndInv'
<1> DEFINE h == HashOf[i]
<1>1. /\ TypeOK /\ PhaseInv /\ WritersInv /\ KnownInv /\ LockInv /\ DataInv
      /\ phase = "on" /\ s \in todo[i]
      /\ known \in [Hash -> SUBSET Store]
      /\ open \in [Inst -> SUBSET Store] /\ todo \in [Inst -> SUBSET Store]
      /\ UNCHANGED <<phase, way, dest, listed, missed, result, left, gone, begun,
                     open, off, failed>>
  BY DEF IndInv, RcloneCopy, runVars, TypeOK
<1>2. /\ h \in Hash /\ Owned(i, s)
      /\ \A j \in Inst : todo'[j] = IF j = i THEN todo[i] \ {s} ELSE todo[j]
      /\ todo' \in [Inst -> SUBSET Store]
      /\ file'[s][h] = Full(h)
      /\ \A t \in Store, g \in Hash : t # s \/ g # h => file'[t][g] = file[t][g]
  <2>1. TypeOK /\ RcloneCopy(i, s)
    BY <1>1
  <2> QED
    BY <2>1, RcloneFacts
<1>3. /\ known' \in [Hash -> SUBSET Store]
      /\ way # "stripe" => known' = known
      /\ way = "stripe" =>
           \A g \in Hash : known'[g] = IF g = h THEN known[g] \cup {s} ELSE known[g]
  BY <1>1, <1>2, OwnedFacts
<1>4. TypeOK'
  BY <1>1, RcloneType
<1> HIDE DEF h
<1>5. /\ \A t \in Store, g \in Hash : Exists(t, g)' <=> Exists(t, g) \/ (t = s /\ g = h)
      /\ \A t \in Store, g \in Hash : Whole(t, g)' <=> Whole(t, g) \/ (t = s /\ g = h)
  <2>1. Full(h) # Absent
    BY <1>2, FullIsFile
  <2>2. Exists(s, h)' /\ Whole(s, h)'
    BY <1>2, <2>1 DEF Exists, Whole, Full
  <2>3. ASSUME NEW t \in Store, NEW g \in Hash, t # s \/ g # h
        PROVE  (Exists(t, g)' <=> Exists(t, g)) /\ (Whole(t, g)' <=> Whole(t, g))
    <3>1. file'[t][g] = file[t][g]
      BY <1>2, <2>3
    <3> QED
      BY <3>1 DEF Exists, Whole, Full
  <2> QED
    BY <2>2, <2>3
<1>6. PhaseInv'
  BY <1>1 DEF PhaseInv
<1>7. KnownInv'
  <2>1. way = "stripe" => \A g \in Hash : \A t \in known'[g] : Exists(t, g)'
    BY <1>1, <1>3, <1>5 DEF KnownInv
  <2> QED
    BY <1>1, <2>1 DEF KnownInv
<1>8. WritersInv'
  <2>1. /\ \A j \in Inst : j \notin begun => todo[j] = {} /\ open[j] = {}
        /\ \A j \in Inst : todo[j] \cap open[j] = {}
        /\ \A j \in Inst : \A t \in open[j] : Exists(t, HashOf[j])
    BY <1>1 DEF WritersInv
  <2>2. \A j \in Inst : (j \notin begun => todo'[j] = {} /\ open[j] = {}) /\ todo'[j] \cap open[j] = {}
    BY <1>1, <1>2, <2>1
  <2>3. \A j \in Inst : \A t \in open[j] : Exists(t, HashOf[j])'
    BY <1>1, <1>5, <2>1 DEF ResumeAssumption
  <2>4. ASSUME NEW t \in Store, NEW g \in Hash, Exists(t, g)'
        PROVE  Len(file'[t][g]) <= Size[g]
    <3>1. CASE t = s /\ g = h
      BY <1>2, <3>1, FullIsFile
    <3>2. CASE ~(t = s /\ g = h)
      BY <1>1, <1>2, <1>5, <2>4, <3>2 DEF WritersInv
    <3> QED
      BY <3>1, <3>2
  <2> QED
    BY <1>1, <2>2, <2>3, <2>4 DEF WritersInv
<1>9. LockInv'
  <2> SUFFICES ASSUME way = "stripe" PROVE LockInv'
    BY <1>1 DEF LockInv
  <2>1. \A j \in Inst : Busy(j)' => Busy(j)
    BY <1>1, <1>2 DEF Busy
  <2>2. \A j, k \in Inst : Busy(j) /\ Busy(k) /\ HashOf[j] = HashOf[k] => j = k
    BY <1>1 DEF LockInv
  <2>3. ASSUME NEW t \in Store, NEW g \in Hash, Whole(t, g)'
        PROVE  \/ t \in known'[g] \/ t \in gone \/ Kind[t] = "cp"
               \/ \E j \in Inst : HashOf[j] = g /\ t \in open[j]
    <3>1. CASE t = s /\ g = h
      BY <1>3, <3>1
    <3>2. CASE ~(t = s /\ g = h)
      <4>1. Whole(t, g) /\ known[g] \subseteq known'[g]
        BY <1>3, <1>5, <2>3, <3>2
      <4> QED
        BY <1>1, <4>1 DEF LockInv
    <3> QED
      BY <3>1, <3>2
  <2>4. ASSUME NEW j \in Inst, NEW t \in todo'[j], Whole(t, HashOf[j])', Kind[t] # "cp"
        PROVE  FALSE
    <3>1. t \in todo[j] /\ t \in Store /\ HashOf[j] \in Hash
      BY <1>1, <1>2, <2>4 DEF ResumeAssumption
    <3>2. t = s /\ HashOf[j] = h
      BY <1>1, <1>5, <2>4, <3>1 DEF LockInv
    <3>3. j = i
      BY <1>1, <2>2, <3>1, <3>2 DEF Busy, h
    <3> QED
      BY <1>2, <2>4, <3>2, <3>3
  <2> QED
    BY <1>1, <2>1, <2>2, <2>3, <2>4 DEF LockInv
<1>10. DataInv'
  <2> SUFFICES ASSUME failed = {} PROVE DataInv'
    BY <1>1 DEF DataInv
  <2>1. ASSUME NEW t \in Store, NEW g \in Hash, Covered(t, g) PROVE Covered(t, g)'
    <3>1. CASE Whole(t, g) \/ (t = s /\ g = h)
      BY <1>5, <3>1 DEF Covered
    <3>2. ASSUME NEW j \in Inst, HashOf[j] = g, Right(j, t), ~(t = s /\ g = h) PROVE Right(j, t)'
      <4>1. file'[t][HashOf[j]] = file[t][HashOf[j]]
        BY <1>2, <3>2
      <4> QED
        BY <1>1, <3>2, <4>1 DEF Right
    <3> QED
      BY <2>1, <3>1, <3>2 DEF Covered
  <2>2. \A t \in Store, g \in Hash : Exists(t, g)' => <<t, g>> \in left \/ Covered(t, g)'
    BY <1>1, <1>5, <2>1 DEF DataInv, Covered
  <2>3. ASSUME way = "direct", NEW j \in begun, NEW t \in dest \ todo'[j]
        PROVE  Covered(t, HashOf[j])'
    <3>1. j \in Inst /\ t \in Store /\ HashOf[j] \in Hash
      BY <1>1 DEF TypeOK, ResumeAssumption
    <3>2. CASE t = s /\ HashOf[j] = h
      BY <1>5, <3>1, <3>2 DEF Covered
    <3>3. CASE ~(t = s /\ HashOf[j] = h)
      <4>1. t \in dest \ todo[j]
        BY <1>2, <2>3, <3>1, <3>3 DEF h
      <4> QED
        BY <1>1, <2>1, <2>3, <3>1, <4>1 DEF DataInv
    <3> QED
      BY <3>2, <3>3
  <2>4. ASSUME way = "stripe", NEW j \in begun
        PROVE  Cardinality(known'[HashOf[j]] \cup todo'[j] \cup open[j]) >= Min
    <3>1. j \in Inst /\ HashOf[j] \in Hash
      BY <1>1 DEF TypeOK, ResumeAssumption
    <3>2. Cardinality(known[HashOf[j]] \cup todo[j] \cup open[j]) >= Min
      BY <1>1, <2>4 DEF DataInv
    <3>3. known[HashOf[j]] \cup todo[j] \cup open[j] \subseteq known'[HashOf[j]] \cup todo'[j] \cup open[j]
      BY <1>2, <1>3, <2>4, <3>1 DEF h
    <3>4. /\ known[HashOf[j]] \cup todo[j] \cup open[j] \in SUBSET Store
          /\ known'[HashOf[j]] \cup todo'[j] \cup open[j] \in SUBSET Store
      BY <1>1, <1>2, <1>3, <3>1
    <3> QED
      BY <3>2, <3>3, <3>4, NotFewer
  <2> QED
    BY <1>1, <2>2, <2>3, <2>4 DEF DataInv
<1>11. OkMeansWritten'
  BY <1>1 DEF PhaseInv, OkMeansWritten
<1> QED
  BY <1>4, <1>6, <1>7, <1>8, <1>9, <1>10, <1>11 DEF IndInv

LEMMA WriteErrorInd ==
  ASSUME ResumeAssumption, IndInv, NEW i \in Inst, NEW s \in Store, WriteError(i, s)
  PROVE  IndInv'
<1>1. /\ TypeOK /\ PhaseInv /\ WritersInv /\ KnownInv /\ LockInv
      /\ phase = "on" /\ s \in todo[i] \cup open[i]
      /\ failed' = failed \cup {i} /\ gone' = gone \cup {s}
      /\ todo \in [Inst -> SUBSET Store] /\ open \in [Inst -> SUBSET Store]
      /\ UNCHANGED <<file, phase, way, dest, listed, missed, result, left, known, begun, off>>
  BY DEF IndInv, WriteError, runVars, TypeOK
<1>2. \A j \in Inst : /\ todo'[j] = IF j = i THEN todo[i] \ {s} ELSE todo[j]
                     /\ open'[j] = IF j = i THEN open[i] \ {s} ELSE open[j]
  BY <1>1 DEF WriteError
<1>3. TypeOK'
  BY <1>1, WriteErrorType
<1>4. way # "restore"
  BY <1>1 DEF PhaseInv, WritersInv
<1>5. PhaseInv' /\ KnownInv'
  BY <1>1, <1>4 DEF PhaseInv, KnownInv, PassedOver, Exists
<1>6. WritersInv'
  BY <1>1, <1>2 DEF WritersInv, Exists
<1>7. LockInv'
  <2> SUFFICES ASSUME way = "stripe" PROVE LockInv'
    BY <1>1 DEF LockInv
  <2>1. \A j \in Inst : (Busy(j)' => Busy(j)) /\ todo'[j] \subseteq todo[j]
    BY <1>1, <1>2 DEF Busy
  <2>2. ASSUME NEW t \in Store, NEW g \in Hash, Whole(t, g)
        PROVE  \/ t \in known[g] \/ t \in gone' \/ Kind[t] = "cp"
               \/ \E j \in Inst : HashOf[j] = g /\ t \in open'[j]
    <3>1. \/ t \in known[g] \/ t \in gone \/ Kind[t] = "cp"
          \/ \E j \in Inst : HashOf[j] = g /\ t \in open[j]
      BY <1>1, <2>2 DEF LockInv
    <3>2. \A j \in Inst : t \in open[j] => t \in open'[j] \/ t \in gone' \/ Kind[t] = "cp"
      BY <1>1, <1>2
    <3> QED
      BY <1>1, <3>1, <3>2
  <2>3. \A t \in Store, g \in Hash : Whole(t, g)' <=> Whole(t, g)
    BY <1>1 DEF Whole, Full
  <2>4. \A j, k \in Inst : Busy(j)' /\ Busy(k)' /\ HashOf[j] = HashOf[k] => j = k
    BY <1>1, <2>1 DEF LockInv
  <2>5. ASSUME NEW j \in Inst, NEW t \in todo'[j]
        PROVE  Whole(t, HashOf[j])' => Kind[t] = "cp"
    <3>1. t \in todo[j] /\ t \in Store /\ HashOf[j] \in Hash
      BY <1>1, <2>1, <2>5 DEF ResumeAssumption
    <3> QED
      BY <1>1, <2>3, <3>1 DEF LockInv
  <2>6. ASSUME NEW t \in Store, NEW g \in Hash, Whole(t, g)'
        PROVE  \/ t \in known'[g] \/ t \in gone' \/ Kind[t] = "cp"
               \/ \E j \in Inst : HashOf[j] = g /\ t \in open'[j]
    BY <1>1, <2>2, <2>3, <2>6
  <2> QED
    BY <1>1, <2>4, <2>5, <2>6 DEF LockInv
<1>8. DataInv' /\ OkMeansWritten'
  BY <1>1 DEF DataInv, PhaseInv, OkMeansWritten
<1> QED
  BY <1>3, <1>5, <1>6, <1>7, <1>8 DEF IndInv

\* What a cascade takes from the registry.
LEMMA FetchesFacts ==
  ASSUME NEW h \in Hash, NEW fail \in SUBSET Store, NEW last, NEW r, Fetches(h, fail, last, r),
         OneVariable /\ fail # {} => last \in Store
  PROVE  \E removed \in SUBSET Store :
           /\ known' = [g \in Hash |-> known[g] \ removed]
           /\ gone' = gone \cup fail \cup removed
  BY DEF Fetches

LEMMA FetchesInd ==
  ASSUME ResumeAssumption, IndInv, NEW h \in Hash, NEW fail \in SUBSET Store, NEW last,
         OneVariable /\ fail # {} => last \in Store,
         NEW r \in {"whole", "corrupt", "lost", "error"}, Fetches(h, fail, last, r)
  PROVE  IndInv'
<1> PICK removed \in SUBSET Store : /\ known' = [g \in Hash |-> known[g] \ removed]
                                     /\ gone' = gone \cup fail \cup removed
  BY FetchesFacts
<1>1. /\ TypeOK /\ PhaseInv /\ WritersInv /\ DataInv
      /\ phase = "on" /\ way = "restore"
      /\ got' = [got EXCEPT ![h] = r]
      /\ known' = [g \in Hash |-> known[g] \ removed]
      /\ gone' = gone \cup fail \cup removed
      /\ UNCHANGED nfaults \/ Fault
      /\ UNCHANGED <<file, phase, way, dest, listed, missed, result, left, begun, todo, open, off,
                     failed, stuck>>
  BY DEF IndInv, Fetches, runVars
<1>2. nfaults' \in 0..MaxFaults
  BY <1>1 DEF Fault, TypeOK, ResumeAssumption
<1>3. /\ known' \in [Hash -> SUBSET Store]
      /\ got' \in [Hash -> {"none", "whole", "corrupt", "lost", "error"}]
  BY <1>1 DEF TypeOK
<1>4. TypeOK'
  BY <1>1, <1>2, <1>3 DEF TypeOK
<1>5. PhaseInv' /\ KnownInv' /\ LockInv'
  BY <1>1 DEF PhaseInv, KnownInv, LockInv
<1>6. WritersInv'
  BY <1>1 DEF WritersInv, Exists
<1>7. DataInv'
  <2>1. \A s \in Store, g \in Hash : (Exists(s, g)' <=> Exists(s, g)) /\ (Covered(s, g)' <=> Covered(s, g))
    BY <1>1 DEF Exists, Covered, Whole, Full, Right
  <2> QED
    BY <1>1, <2>1 DEF DataInv
<1>8. OkMeansWritten'
  BY <1>1 DEF PhaseInv, OkMeansWritten
<1> QED
  BY <1>4, <1>5, <1>6, <1>7, <1>8 DEF IndInv
-----------------------------------------------------------------------------
(* All steps.                                                              *)

LEMMA InstInd ==
  ASSUME ResumeAssumption, IndInv, NEW i \in Inst, InstStep(i)
  PROVE  IndInv'
<1>1. CASE Plan(i)
  BY <1>1, PlanInd
<1>2. CASE PlanShort(i)
  BY <1>2, PlanShortInd
<1>3. CASE Put(i)
  BY <1>3, PutInd
<1>4. ASSUME NEW s \in Store, CpOpen(i, s) PROVE IndInv'
  BY <1>4, OpenInd DEF CpOpen
<1>5. ASSUME NEW s \in Store, DdOpen(i, s) PROVE IndInv'
  BY <1>5, OpenInd DEF DdOpen
<1>6. ASSUME NEW s \in Store, Write(i, s) PROVE IndInv'
  BY <1>6, WriteInd
<1>7. ASSUME NEW s \in Store, EndWrite(i, s) PROVE IndInv'
  BY <1>7, EndWriteInd
<1>8. ASSUME NEW s \in Store, RcloneCopy(i, s) PROVE IndInv'
  BY <1>8, RcloneInd
<1>9. ASSUME NEW s \in Store, WriteError(i, s) PROVE IndInv'
  BY <1>9, WriteErrorInd
<1> QED
  BY <1>1, <1>2, <1>3, <1>4, <1>5, <1>6, <1>7, <1>8, <1>9 DEF InstStep

LEMMA FetchInd ==
  ASSUME ResumeAssumption, IndInv, NEW h \in Hash, Fetch(h) \/ FetchFails(h)
  PROVE  IndInv'
<1>1. known[h] \in SUBSET Store
  BY DEF IndInv, TypeOK
<1>2. CASE Fetch(h)
  <2>1. PICK fail \in SUBSET known[h], s \in known[h], last \in known[h] :
          Fetches(h, fail, last, Checked(s, h))
    BY <1>2 DEF Fetch
  <2>2. Checked(s, h) \in {"whole", "corrupt", "lost", "error"}
    BY DEF Checked
  <2> QED
    BY <1>1, <2>1, <2>2, FetchesInd
<1>3. CASE FetchFails(h)
  <2>1. CASE Fetches(h, {}, Absent, "lost")
    BY <2>1, FetchesInd
  <2>2. ASSUME NEW s \in known[h], NEW r \in Load(s, h) \ {"data"}, Fetches(h, known[h], s, r)
        PROVE  IndInv'
    <3>1. r \in {"whole", "corrupt", "lost", "error"}
      BY <1>1, ResumeAssumption DEF Load, CpLoad, DdLoad, RcloneLoad, ResumeAssumption
    <3> QED
      BY <1>1, <2>2, <3>1, FetchesInd
  <2> QED
    BY <1>3, <2>1, <2>2 DEF FetchFails
<1> QED
  BY <1>2, <1>3

LEMMA NextInd == ASSUME ResumeAssumption, IndInv, [Next]_vars PROVE IndInv'
<1>1. CASE Stripe
  BY <1>1, StartInd DEF Stripe
<1>2. CASE Restore
  BY <1>2, StartInd DEF Restore
<1>3. ASSUME NEW s \in Store, Direct(s) PROVE IndInv'
  BY <1>3, StartInd DEF Direct
<1>4. ASSUME NEW s \in Store, List(s) PROVE IndInv'
  BY <1>4, ListInd
<1>5. ASSUME NEW s \in Store, ListError(s) PROVE IndInv'
  BY <1>5, FailInd DEF ListError
<1>6. ASSUME NEW i \in Inst, InstStep(i) PROVE IndInv'
  BY <1>6, InstInd
<1>7. ASSUME NEW h \in Hash, Fetch(h) \/ FetchFails(h) PROVE IndInv'
  BY <1>7, FetchInd
<1>8. CASE Finish
  BY <1>8, FinishInd
<1>9. CASE Exit
  BY <1>9, FailInd DEF Exit
<1>10. CASE Kill
  BY <1>10, FailInd DEF Kill
<1>11. CASE UNCHANGED vars
  <2>1. UNCHANGED <<file, phase, way, dest, listed, missed, result, left, known, gone, begun,
                    todo, open, off, failed, stuck, got, nfaults>>
    BY <1>11 DEF vars, runVars
  <2>2. TypeOK /\ PhaseInv /\ WritersInv /\ KnownInv /\ LockInv /\ DataInv /\ OkMeansWritten
    BY DEF IndInv
  <2>3. TypeOK' /\ PhaseInv'
    BY <2>1, <2>2 DEF TypeOK, PhaseInv
  <2>4. WritersInv'
    BY <2>1, <2>2 DEF WritersInv, Exists
  <2>5. KnownInv'
    BY <2>1, <2>2 DEF KnownInv, PassedOver, Exists
  <2>6. LockInv'
    BY <2>1, <2>2 DEF LockInv, Whole, Full, Busy
  <2>7. DataInv'
    BY <2>1, <2>2 DEF DataInv, Exists, Covered, Whole, Full, Right
  <2>8. \A s \in Store, h \in Hash : /\ Exists(s, h)' = Exists(s, h)
                                    /\ Whole(s, h)' = Whole(s, h)
    BY <2>1 DEF Exists, Whole, Full
  <2>9. Unwhole' = Unwhole
    BY <2>1 DEF Unwhole, Exists, Whole, Full
  <2>10. \A i \in Inst : {s \in Store : Exists(s, HashOf[i])}' = {s \in Store : Exists(s, HashOf[i])}
    BY <2>1 DEF Exists
  <2>11. OkMeansWritten'
    <3>1. OkMeansWritten
      BY <2>2
    <3>2. \A i \in Inst : HashOf[i] \in Hash
      BY DEF ResumeAssumption
    <3>3. ASSUME result' = "ok", way' = "direct"
          PROVE  \A i \in Inst : \A s \in dest' : Whole(s, HashOf[i])'
      <4>1. \A i \in Inst : \A s \in dest : Whole(s, HashOf[i])
        BY <2>1, <3>1, <3>3 DEF OkMeansWritten
      <4>2. dest' = dest /\ dest \subseteq Store
        BY <2>1, <2>2 DEF TypeOK
      <4> QED
        BY <4>1, <4>2, <2>8, <3>2
    <3>4. ASSUME result' = "ok", way' = "stripe"
          PROVE  /\ Unwhole' \subseteq left'
                 /\ \A i \in Inst :
                      Cardinality({s \in Store : Exists(s, HashOf[i])}') >= Min
      <4>1. /\ Unwhole \subseteq left
            /\ \A i \in Inst : Cardinality({s \in Store : Exists(s, HashOf[i])}) >= Min
        BY <2>1, <3>1, <3>4 DEF OkMeansWritten
      <4> QED
        BY <2>1, <2>9, <2>10, <4>1
    <3> QED
      BY <3>3, <3>4 DEF OkMeansWritten
  <2> QED
    BY <2>3, <2>4, <2>5, <2>6, <2>7, <2>11 DEF IndInv
<1> QED
  BY <1>1, <1>2, <1>3, <1>4, <1>5, <1>6, <1>7, <1>8, <1>9, <1>10, <1>11 DEF Next, RunStep

\* Whatever is killed or fails, in any order, the registry of a run that
\* stripes has what the stores listed have, one instance at a time writes a
\* chunk, and data that is written is covered by a writer or whole.
THEOREM Invariance == Spec => []IndInv
<1>1. Init => IndInv
  BY ResumeAssumption, InitInd
<1>2. IndInv /\ [Next]_vars => IndInv'
  BY ResumeAssumption, NextInd
<1> QED
  BY <1>1, <1>2, PTL DEF Spec

\* A backup that ends without an error has written what it was given
\* (procs/procs.go Process), for any number of stores, chunks
\* and instances and whatever runs before it have left.
THEOREM BackupWritten == Spec => []OkMeansWritten
<1>1. IndInv => OkMeansWritten
  BY DEF IndInv
<1> QED
  BY <1>1, Invariance, PTL

LEMMA WholeKept ==
  ASSUME ResumeAssumption, IndInv, [Next]_vars, NEW s \in Store, NEW h \in Hash, Whole(s, h)
  PROVE  Whole(s, h)' \/ (way = "direct" /\ Kind[s] = "dd")
<1>1. /\ file \in [Store -> [Hash -> File \cup {Absent}]]
      /\ off \in [Inst -> [Store -> Nat]]
      /\ WritersInv /\ PhaseInv /\ LockInv
      /\ way \in {"stripe", "direct", "restore"}
      /\ \A i \in Inst : HashOf[i] \in Hash
      /\ file[s][h] = Full(h) /\ Full(h) # Absent /\ Full(h) \in File /\ <<>> \in File
  BY FullIsFile DEF IndInv, TypeOK, Whole, ResumeAssumption, File
<1>2. file'[s][h] = file[s][h] => Whole(s, h)'
  BY <1>1 DEF Whole, Full
<1>3. ASSUME NEW i \in Inst, NEW t \in Store, NEW f \in File, SetFile(t, HashOf[i], f)
      PROVE  /\ t = s /\ HashOf[i] = h => file'[s][h] = f
             /\ t # s \/ HashOf[i] # h => file'[s][h] = file[s][h]
  BY <1>1, <1>3 DEF SetFile
<1>4. ASSUME NEW i \in Inst, NEW t \in Store, CpOpen(i, t) PROVE Whole(s, h)'
  BY <1>1, <1>2, <1>3, <1>4 DEF CpOpen, Exists
<1>5. ASSUME NEW i \in Inst, NEW t \in Store, DdOpen(i, t)
      PROVE  Whole(s, h)' \/ (way = "direct" /\ Kind[s] = "dd")
  <2>1. phase = "on" /\ t \in todo[i] /\ Kind[t] = "dd" /\ SetFile(t, HashOf[i], <<>>)
    BY <1>5 DEF DdOpen, Opens
  <2>2. way # "restore"
    BY <1>1, <2>1 DEF PhaseInv, WritersInv
  <2>3. CASE t = s /\ HashOf[i] = h
    BY <1>1, <2>1, <2>2, <2>3 DEF LockInv
  <2>4. CASE t # s \/ HashOf[i] # h
    BY <1>1, <1>2, <1>3, <2>1, <2>4
  <2> QED
    BY <2>3, <2>4
<1>6. ASSUME NEW i \in Inst, NEW t \in Store, Write(i, t) PROVE Whole(s, h)'
  <2>1. /\ off[i][t] \in Nat /\ off[i][t] < Size[HashOf[i]]
        /\ SetFile(t, HashOf[i], Written(file[t][HashOf[i]], off[i][t]))
    BY <1>1, <1>6 DEF Write
  <2>2. CASE t = s /\ HashOf[i] = h
    <3>1. Written(file[t][HashOf[i]], off[i][t]) = Full(h)
      BY <1>1, <2>1, <2>2, WrittenKeepsFull
    <3> QED
      BY <1>1, <1>2, <1>3, <2>1, <2>2, <3>1
  <2>3. CASE t # s \/ HashOf[i] # h
    <3>1. t \in open[i]
      BY <1>6 DEF Write
    <3>2. file[t][HashOf[i]] \in File
      BY <1>1, <3>1 DEF WritersInv, Exists
    <3>3. Written(file[t][HashOf[i]], off[i][t]) \in File
      BY <2>1, <3>2, WrittenIsFile
    <3> QED
      BY <1>2, <1>3, <2>1, <2>3, <3>3
  <2> QED
    BY <2>2, <2>3
<1>7. ASSUME NEW i \in Inst, NEW t \in Store, RcloneCopy(i, t) PROVE Whole(s, h)'
  <2>1. Full(HashOf[i]) \in File /\ SetFile(t, HashOf[i], Full(HashOf[i]))
    BY <1>1, <1>7, FullIsFile DEF RcloneCopy
  <2>2. file'[s][h] = file[s][h]
    BY <1>1, <1>3, <2>1
  <2> QED
    BY <1>2, <2>2
<1>8. ASSUME UNCHANGED file PROVE Whole(s, h)'
  BY <1>2, <1>8
<1>9. ASSUME NEW i \in Inst, InstStep(i)
      PROVE  Whole(s, h)' \/ (way = "direct" /\ Kind[s] = "dd")
  <2>1. ASSUME Plan(i) \/ PlanShort(i) \/ Put(i) PROVE UNCHANGED file
    BY <2>1 DEF Plan, PlanShort, Put
  <2>2. ASSUME NEW t \in Store, EndWrite(i, t) \/ WriteError(i, t) PROVE UNCHANGED file
    BY <2>2 DEF EndWrite, WriteError
  <2> QED
    BY <1>4, <1>5, <1>6, <1>7, <1>8, <1>9, <2>1, <2>2 DEF InstStep
<1>10. ASSUME NEW t \in Store, List(t) \/ ListError(t) \/ Direct(t) PROVE UNCHANGED file
  BY <1>10 DEF List, ListError, Over, Direct, StartRun
<1>11. ASSUME NEW g \in Hash, Fetch(g) \/ FetchFails(g) PROVE UNCHANGED file
  BY <1>11 DEF Fetch, FetchFails, Fetches
<1>12. ASSUME Stripe \/ Restore \/ Finish \/ Exit \/ Kill \/ UNCHANGED vars PROVE UNCHANGED file
  BY <1>12 DEF Stripe, Restore, StartRun, Finish, Exit, Kill, Over, vars
<1> QED
  BY <1>8, <1>9, <1>10, <1>11, <1>12 DEF Next, RunStep

\* A whole copy stays whole through kills, failures and the runs after them
\* (stores/cp.go getWriter, stripe's registry): only dd as a proc of the chain
\* empties what is there.
THEOREM CopiesStayWhole == Spec => WholeStaysWhole
<1>1. IndInv /\ [Next]_vars
        => \A s \in Store, h \in Hash :
             Whole(s, h) => Whole(s, h)' \/ (way = "direct" /\ Kind[s] = "dd")
  BY ResumeAssumption, WholeKept
<1> QED
  BY <1>1, Invariance, PTL DEF Spec, WholeStaysWhole

-----------------------------------------------------------------------------
(* What is read, and what is copied once too often.                        *)

\* What a store holds is in the registry, has been passed over, is being written or is
\* on a store that has failed or been removed.
AllKnown ==
  phase = "on" /\ way # "direct" =>
    \A s \in Store, h \in Hash :
      Exists(s, h) => \/ s \in known[h] \/ s \in gone \/ PassedOver(s, h)
                      \/ \E i \in Inst : HashOf[i] = h /\ s \in open[i]

\* The stores in use that are to have the chunk of i.
Planned(i) == (known[HashOf[i]] \cap Usable) \cup todo[i] \cup open[i]

\* While an instance makes copies, they are no more than it takes.
ExcessInv ==
  phase = "on" /\ way = "stripe" =>
    \A i \in Inst : Busy(i) => Cardinality(Planned(i)) <= Min

\* Nothing is read before the run is on.
Unread == phase # "on" => \A h \in Hash : got[h] = "none"

MoreInv == AllKnown /\ ExcessInv /\ Unread /\ ReadBack

LEMMA InitMore == ASSUME Init PROVE MoreInv
  BY DEF Init, MoreInv, AllKnown, ExcessInv, Unread, ReadBack

LEMMA StartMore ==
  ASSUME NEW w \in {"stripe", "direct", "restore"}, NEW D \in SUBSET Store, StartRun(w, D)
  PROVE  MoreInv'
<1>1. /\ phase' = "on" => way' = "direct"
      /\ \A h \in Hash : got'[h] = "none"
  BY DEF StartRun, Fresh
<1> QED
  BY <1>1 DEF MoreInv, AllKnown, ExcessInv, Unread, ReadBack

LEMMA OverMore ==
  ASSUME NEW r \in {"ok", "error", "killed"}, Over(r)
  PROVE  MoreInv'
<1>1. phase' = "off" /\ \A h \in Hash : got'[h] = "none"
  BY DEF Over, Fresh
<1> QED
  BY <1>1 DEF MoreInv, AllKnown, ExcessInv, Unread, ReadBack

\* Nothing is planned anew.
LEMMA ExcessKept ==
  ASSUME ResumeAssumption, TypeOK, ExcessInv, phase = "on", way' = way,
         \A j \in Inst : Busy(j)' => Busy(j) /\ Planned(j)' \subseteq Planned(j)
  PROVE  ExcessInv'
<1> SUFFICES ASSUME way = "stripe", NEW j \in Inst, Busy(j)'
             PROVE  Cardinality(Planned(j)') <= Min
  BY DEF ExcessInv
<1>1. Cardinality(Planned(j)) <= Min /\ Planned(j)' \subseteq Planned(j)
  BY DEF ExcessInv
<1>2. Planned(j) \subseteq Store /\ IsFiniteSet(Store) /\ Min \in Nat
  BY DEF Planned, TypeOK, ResumeAssumption, Usable
<1>3. IsFiniteSet(Planned(j)) /\ IsFiniteSet(Planned(j)')
  BY <1>1, <1>2, FS_Subset
<1>4. Cardinality(Planned(j)') <= Cardinality(Planned(j))
  BY <1>1, <1>3, FS_Subset
<1>5. Cardinality(Planned(j)') \in Nat /\ Cardinality(Planned(j)) \in Nat
  BY <1>3, FS_CardinalityType
<1> QED
  BY <1>1, <1>2, <1>4, <1>5

LEMMA ListMore ==
  ASSUME ResumeAssumption, IndInv, MoreInv, NEW s \in Store, List(s)
  PROVE  MoreInv'
<1>1. /\ IndInv' /\ phase = "listing" /\ listed' = listed \cup {s}
      /\ phase' = IF listed' = dest THEN "on" ELSE "listing"
      /\ UNCHANGED <<file, way, dest, todo, open, got>>
      /\ TypeOK /\ PhaseInv /\ WritersInv /\ KnownInv
  BY ListInd DEF IndInv, List
<1>2. /\ way # "direct" /\ dest = Store
      /\ \A i \in Inst : todo[i] = {} /\ open[i] = {}
      /\ known \in [Hash -> SUBSET Store]
  BY <1>1 DEF PhaseInv, WritersInv, TypeOK
<1>3. /\ \A h \in Hash : known[h] \subseteq known'[h]
      /\ \A h \in Hash : Exists(s, h) =>
           s \in known'[h] \/ (Kind[s] = "cp" /\ <<s, h>> \in missed')
      /\ missed \subseteq missed'
  BY <1>1, ListFacts
<1>5. AllKnown'
  <2> SUFFICES ASSUME phase' = "on", NEW t \in Store, NEW h \in Hash, Exists(t, h)'
               PROVE  t \in known'[h] \/ PassedOver(t, h)'
    BY DEF AllKnown
  <2>1. listed \cup {s} = Store /\ Exists(t, h)
    BY <1>1, <1>2 DEF Exists
  <2>2. t = s \/ t \in known[h] \/ PassedOver(t, h)
    BY <1>1, <2>1 DEF KnownInv
  <2> QED
    BY <1>3, <2>1, <2>2 DEF PassedOver
<1>6. ExcessInv'
  BY <1>1, <1>2 DEF ExcessInv, Busy
<1>7. \A h \in Hash : got'[h] = "none"
  BY <1>1 DEF MoreInv, Unread
<1> QED
  BY <1>5, <1>6, <1>7 DEF MoreInv, Unread, ReadBack

\* What the steps of an instance leave alone, when it stripes.
LEMMA StripeOnly ==
  ASSUME PhaseInv, phase = "on", way # "restore", UNCHANGED <<phase, way>>, MoreInv,
         AllKnown', ExcessInv'
  PROVE  MoreInv'
  BY DEF MoreInv, Unread, ReadBack

LEMMA PlanMore ==
  ASSUME ResumeAssumption, IndInv, MoreInv, NEW i \in Inst, Plan(i)
  PROVE  MoreInv'
<1> DEFINE h == HashOf[i]
<1>1. /\ TypeOK /\ PhaseInv /\ WritersInv
      /\ phase = "on" /\ way = "stripe" /\ i \notin begun /\ AllKnown /\ ExcessInv
      /\ UNCHANGED <<file, phase, way, missed, known, gone, open>>
  BY DEF IndInv, MoreInv, Plan, Begins, runVars
<1>2. PICK jobs \in SUBSET (Usable \ known[h]) :
        /\ Cardinality(jobs) = Missing(h)
        /\ todo' = [todo EXCEPT ![i] = jobs]
  BY DEF Plan
<1>3. /\ h \in Hash /\ known \in [Hash -> SUBSET Store]
      /\ \A j \in Inst : todo'[j] = IF j = i THEN jobs ELSE todo[j]
  BY <1>1, <1>2 DEF TypeOK, ResumeAssumption
<1>4. AllKnown'
  BY <1>1 DEF AllKnown, PassedOver, Exists
<1>5. open[i] = {} /\ todo'[i] = jobs
  BY <1>1, <1>3 DEF WritersInv
<1>6. ASSUME Busy(i)' PROVE Cardinality(Planned(i)') <= Min
  <2> DEFINE have == known[h] \cap Usable
  <2>1. Planned(i)' = have \cup jobs
    BY <1>1, <1>5 DEF Planned, Usable
  <2>2. jobs # {}
    BY <1>1, <1>5, <1>6 DEF Busy
  <2>3. IsFiniteSet(have) /\ IsFiniteSet(jobs) /\ have \cap jobs = {} /\ Min \in Nat
    BY <1>3, FS_Subset DEF ResumeAssumption, Usable
  <2>4. /\ Cardinality(have) \in Nat /\ Cardinality(jobs) \in Nat /\ Cardinality(jobs) # 0
        /\ Cardinality(have \cap jobs) = 0
    BY <2>2, <2>3, FS_CardinalityType, FS_EmptySet
  <2>5. Cardinality(have \cup jobs)
          = Cardinality(have) + Cardinality(jobs) - Cardinality(have \cap jobs)
    BY <2>3, FS_Union
  <2>6. Cardinality(jobs) = IF Cardinality(have) >= Min THEN 0 ELSE Min - Cardinality(have)
    BY <1>2 DEF Missing, Lacking
  <2> HIDE DEF have
  <2> QED
    BY <2>1, <2>3, <2>4, <2>5, <2>6
<1>7. ASSUME NEW j \in Inst, j # i, Busy(j)' PROVE Cardinality(Planned(j)') <= Min
  <2>1. Busy(j) /\ Planned(j)' = Planned(j)
    BY <1>1, <1>3, <1>7 DEF Busy, Planned, Usable
  <2> QED
    BY <1>1, <2>1 DEF ExcessInv
<1>8. ExcessInv'
  BY <1>6, <1>7 DEF ExcessInv
<1> QED
  BY <1>1, <1>4, <1>8, StripeOnly

LEMMA OpenMore ==
  ASSUME ResumeAssumption, IndInv, MoreInv, NEW i \in Inst, NEW s \in Store,
         CpOpen(i, s) \/ DdOpen(i, s)
  PROVE  MoreInv'
<1> DEFINE h == HashOf[i]
<1>1. /\ TypeOK /\ PhaseInv /\ WritersInv /\ AllKnown /\ ExcessInv
      /\ phase = "on" /\ s \in todo[i]
      /\ UNCHANGED <<phase, way, missed, known, gone>>
  BY DEF IndInv, MoreInv, CpOpen, DdOpen, Opens, runVars
<1>2. /\ todo' = [todo EXCEPT ![i] = todo[i] \ {s}]
      /\ open' = [open EXCEPT ![i] = open[i] \cup {s}]
      /\ todo \in [Inst -> SUBSET Store] /\ open \in [Inst -> SUBSET Store]
  BY <1>1 DEF CpOpen, DdOpen, Opens, TypeOK
<1>3. \A j \in Inst : /\ todo'[j] = IF j = i THEN todo[i] \ {s} ELSE todo[j]
                      /\ open'[j] = IF j = i THEN open[i] \cup {s} ELSE open[j]
  BY <1>2
<1>4. way # "restore"
  BY <1>1 DEF PhaseInv, WritersInv
<1>5. \A t \in Store, g \in Hash : t # s \/ g # h => (Exists(t, g)' <=> Exists(t, g))
  <2>1. <<>> \in File /\ h \in Hash
    BY DEF File, ResumeAssumption
  <2>2. UNCHANGED file \/ SetFile(s, h, <<>>)
    BY DEF CpOpen, DdOpen
  <2> QED
    BY <1>1, <2>1, <2>2, SetFileType DEF Exists
<1>6. AllKnown'
  <2> SUFFICES ASSUME way # "direct", NEW t \in Store, NEW g \in Hash, Exists(t, g)'
               PROVE  \/ t \in known[g] \/ t \in gone \/ PassedOver(t, g)'
                      \/ \E j \in Inst : HashOf[j] = g /\ t \in open'[j]
    BY <1>1 DEF AllKnown
  <2>1. CASE t = s /\ g = h
    BY <2>1, <1>3
  <2>2. CASE t # s \/ g # h
    BY <2>2, <1>1, <1>3, <1>5 DEF AllKnown, PassedOver
  <2> QED
    BY <2>1, <2>2
<1>7. \A j \in Inst : Busy(j)' => Busy(j) /\ Planned(j)' \subseteq Planned(j)
  BY <1>1, <1>3 DEF Busy, Planned, Usable
<1>8. ExcessInv'
  BY <1>1, <1>7, ExcessKept
<1> QED
  BY <1>1, <1>4, <1>6, <1>8, StripeOnly

LEMMA WriteMore ==
  ASSUME ResumeAssumption, IndInv, MoreInv, NEW i \in Inst, NEW s \in Store, Write(i, s)
  PROVE  MoreInv'
<1>1. /\ TypeOK /\ PhaseInv /\ WritersInv /\ AllKnown /\ ExcessInv
      /\ phase = "on" /\ s \in open[i]
      /\ UNCHANGED <<phase, way, missed, known, gone, todo, open>>
  BY DEF IndInv, MoreInv, Write, runVars
<1>2. way # "restore"
  BY <1>1 DEF PhaseInv, WritersInv
<1>3. \A t \in Store, g \in Hash : Exists(t, g)' => Exists(t, g)
  <2>1. Exists(s, HashOf[i])
    BY <1>1 DEF WritersInv
  <2>2. \A t \in Store, g \in Hash : t # s \/ g # HashOf[i] => file'[t][g] = file[t][g]
    BY <1>1, WriteFacts
  <2> QED
    BY <2>1, <2>2 DEF Exists
<1>4. AllKnown'
  BY <1>1, <1>3 DEF AllKnown, PassedOver
<1>5. ExcessInv'
  BY <1>1, ExcessKept DEF Busy, Planned, Usable
<1> QED
  BY <1>1, <1>2, <1>4, <1>5, StripeOnly

\* The end of a copy: its store has it now, and no other instance is at it.
LEMMA CopiedMore ==
  ASSUME ResumeAssumption, IndInv, MoreInv, NEW i \in Inst, NEW s \in todo[i] \cup open[i],
         phase = "on", UNCHANGED <<phase, way, missed, gone>>, Owned(i, s),
         \A j \in Inst : todo'[j] = (IF j = i THEN todo[i] \ {s} ELSE todo[j])
                         /\ open'[j] = (IF j = i THEN open[i] \ {s} ELSE open[j]),
         \A t \in Store, g \in Hash :
           t # s \/ g # HashOf[i] => (Exists(t, g)' <=> Exists(t, g))
  PROVE  MoreInv'
<1> DEFINE h == HashOf[i]
<1>1. /\ TypeOK /\ PhaseInv /\ WritersInv /\ LockInv /\ AllKnown /\ ExcessInv
      /\ s \in Store /\ Busy(i) /\ h \in Hash
  BY DEF IndInv, MoreInv, TypeOK, Busy, ResumeAssumption
<1>2. /\ way # "restore"
      /\ way = "stripe" =>
           \A g \in Hash : known'[g] = IF g = h THEN known[g] \cup {s} ELSE known[g]
  <2>1. way # "restore"
    BY <1>1 DEF PhaseInv, WritersInv, Busy
  <2>2. Owned(i, s)
    OBVIOUS
  <2> QED
    BY <1>1, <2>1, <2>2, OwnedFacts
<1>3. AllKnown'
  <2> SUFFICES ASSUME way # "direct", NEW t \in Store, NEW g \in Hash, Exists(t, g)'
               PROVE  \/ t \in known'[g] \/ t \in gone \/ PassedOver(t, g)'
                      \/ \E j \in Inst : HashOf[j] = g /\ t \in open'[j]
    BY <1>1 DEF AllKnown
  <2>1. way = "stripe"
    BY <1>1, <1>2 DEF TypeOK
  <2>2. CASE t = s /\ g = h
    BY <2>1, <2>2, <1>2
  <2>3. CASE t # s \/ g # h
    <3>1. Exists(t, g)
      BY <2>3
    <3>2. \/ t \in known[g] \/ t \in gone \/ PassedOver(t, g)
          \/ \E j \in Inst : HashOf[j] = g /\ t \in open[j]
      BY <1>1, <3>1 DEF AllKnown
    <3>3. known[g] \subseteq known'[g]
      BY <2>1, <1>2
    <3>4. ASSUME NEW j \in Inst, HashOf[j] = g, t \in open[j] PROVE t \in open'[j]
      BY <2>3, <3>4
    <3>5. PassedOver(t, g) => PassedOver(t, g)' \/ t \in known'[g]
      BY <1>1 DEF PassedOver
    <3> QED
      BY <3>2, <3>3, <3>4, <3>5
  <2> QED
    BY <2>2, <2>3
<1>4. ExcessInv'
  <2> SUFFICES ASSUME way = "stripe" PROVE ExcessInv'
    BY DEF ExcessInv
  <2>1. ASSUME NEW j \in Inst, Busy(j)' PROVE Busy(j) /\ Planned(j)' \subseteq Planned(j)
    <3>1. Busy(j)
      BY <2>1 DEF Busy
    <3>2. CASE j = i
      <4>1. /\ known'[h] = known[h] \cup {s}
            /\ todo'[i] = todo[i] \ {s} /\ open'[i] = open[i] \ {s}
        BY <1>1, <1>2
      <4> QED
        BY <3>1, <3>2, <4>1 DEF Planned, Usable
    <3>3. CASE j # i
      <4>1. HashOf[j] # h /\ HashOf[j] \in Hash
        BY <1>1, <3>1, <3>3 DEF LockInv, ResumeAssumption
      <4> QED
        BY <3>1, <3>3, <4>1, <1>2 DEF Planned, Usable
    <3> QED
      BY <3>2, <3>3
  <2> QED
    BY <1>1, <2>1, ExcessKept
<1> QED
  BY <1>1, <1>2, <1>3, <1>4, StripeOnly

LEMMA EndWriteMore ==
  ASSUME ResumeAssumption, IndInv, MoreInv, NEW i \in Inst, NEW s \in Store, EndWrite(i, s)
  PROVE  MoreInv'
<1>1. /\ TypeOK /\ WritersInv /\ phase = "on" /\ s \in open[i] /\ Owned(i, s)
      /\ UNCHANGED <<phase, way, missed, gone, todo, file>>
  BY DEF IndInv, EndWrite, runVars
<1>2. todo[i] \cap open[i] = {}
  BY <1>1 DEF WritersInv
<1>3. todo[i] \ {s} = todo[i]
  BY <1>1, <1>2
<1>4. \A j \in Inst : todo'[j] = IF j = i THEN todo[i] \ {s} ELSE todo[j]
  BY <1>1, <1>3
<1>5. \A j \in Inst : open'[j] = IF j = i THEN open[i] \ {s} ELSE open[j]
  BY <1>1, EndWriteFacts
<1>6. s \in todo[i] \cup open[i]
  BY <1>1
<1>7. /\ \A j \in Inst : todo'[j] = (IF j = i THEN todo[i] \ {s} ELSE todo[j])
                         /\ open'[j] = (IF j = i THEN open[i] \ {s} ELSE open[j])
      /\ \A t \in Store, g \in Hash :
           t # s \/ g # HashOf[i] => (Exists(t, g)' <=> Exists(t, g))
  BY <1>1, <1>4, <1>5 DEF Exists
<1>8. phase = "on" /\ UNCHANGED <<phase, way, missed, gone>> /\ Owned(i, s)
  BY <1>1
<1> QED
  BY <1>6, <1>7, <1>8, CopiedMore

LEMMA RcloneMore ==
  ASSUME ResumeAssumption, IndInv, MoreInv, NEW i \in Inst, NEW s \in Store, RcloneCopy(i, s)
  PROVE  MoreInv'
<1>1. /\ TypeOK /\ WritersInv /\ phase = "on" /\ s \in todo[i]
      /\ UNCHANGED <<phase, way, missed, gone, open>>
  BY DEF IndInv, RcloneCopy, runVars
<1>2. todo[i] \cap open[i] = {}
  BY <1>1 DEF WritersInv
<1>3. /\ Owned(i, s)
      /\ \A j \in Inst : todo'[j] = IF j = i THEN todo[i] \ {s} ELSE todo[j]
      /\ \A t \in Store, g \in Hash :
           t # s \/ g # HashOf[i] => file'[t][g] = file[t][g]
  <2>1. TypeOK
    BY <1>1
  <2> QED
    BY <2>1, RcloneFacts
<1>4. \A j \in Inst : open'[j] = IF j = i THEN open[i] \ {s} ELSE open[j]
  BY <1>1, <1>2
<1>5. \A t \in Store, g \in Hash :
        t # s \/ g # HashOf[i] => (Exists(t, g)' <=> Exists(t, g))
  BY <1>3 DEF Exists
<1>6. \A j \in Inst : todo'[j] = (IF j = i THEN todo[i] \ {s} ELSE todo[j])
                      /\ open'[j] = (IF j = i THEN open[i] \ {s} ELSE open[j])
  BY <1>3, <1>4
<1>7. phase = "on" /\ UNCHANGED <<phase, way, missed, gone>> /\ Owned(i, s) /\ s \in todo[i] \cup open[i]
  BY <1>1, <1>3
<1> QED
  BY <1>5, <1>6, <1>7, CopiedMore

LEMMA WriteErrorMore ==
  ASSUME ResumeAssumption, IndInv, MoreInv, NEW i \in Inst, NEW s \in Store, WriteError(i, s)
  PROVE  MoreInv'
<1>1. /\ TypeOK /\ PhaseInv /\ WritersInv /\ AllKnown /\ ExcessInv
      /\ phase = "on" /\ s \in todo[i] \cup open[i] /\ gone' = gone \cup {s}
      /\ UNCHANGED <<phase, way, missed, known, file>>
  BY DEF IndInv, MoreInv, WriteError, runVars
<1>2. \A j \in Inst : /\ todo'[j] = IF j = i THEN todo[i] \ {s} ELSE todo[j]
                      /\ open'[j] = IF j = i THEN open[i] \ {s} ELSE open[j]
  BY <1>1, WriteErrorFacts
<1>3. way # "restore"
  BY <1>1 DEF PhaseInv, WritersInv
<1>4. AllKnown'
  <2> SUFFICES ASSUME way # "direct", NEW t \in Store, NEW g \in Hash, Exists(t, g)'
               PROVE  \/ t \in known[g] \/ t \in gone' \/ PassedOver(t, g)'
                      \/ \E j \in Inst : HashOf[j] = g /\ t \in open'[j]
    BY <1>1 DEF AllKnown
  <2>1. \/ t \in known[g] \/ t \in gone \/ PassedOver(t, g)
        \/ \E j \in Inst : HashOf[j] = g /\ t \in open[j]
    BY <1>1 DEF AllKnown, PassedOver, Exists
  <2> QED
    BY <1>1, <1>2, <2>1 DEF PassedOver
<1>5. \A j \in Inst : Busy(j)' => Busy(j) /\ Planned(j)' \subseteq Planned(j)
  BY <1>1, <1>2 DEF Busy, Planned, Usable
<1>6. ExcessInv'
  BY <1>1, <1>5, ExcessKept
<1> QED
  BY <1>1, <1>3, <1>4, <1>6, StripeOnly

LEMMA PlanShortMore ==
  ASSUME ResumeAssumption, IndInv, MoreInv, NEW i \in Inst, PlanShort(i)
  PROVE  MoreInv'
<1>1. /\ TypeOK /\ PhaseInv /\ AllKnown /\ ExcessInv
      /\ phase = "on" /\ way = "stripe"
      /\ UNCHANGED <<file, phase, way, missed, known, gone, todo, open>>
  BY DEF IndInv, MoreInv, PlanShort, Begins, runVars
<1>2. AllKnown'
  BY <1>1 DEF AllKnown, PassedOver, Exists
<1>3. ExcessInv'
  BY <1>1, ExcessKept DEF Busy, Planned, Usable
<1> QED
  BY <1>1, <1>2, <1>3, StripeOnly

LEMMA PutMore ==
  ASSUME IndInv, MoreInv, NEW i \in Inst, Put(i)
  PROVE  MoreInv'
<1>1. /\ PhaseInv /\ phase = "on" /\ way = "direct" /\ UNCHANGED <<phase, way>>
  BY DEF IndInv, Put, Begins, runVars
<1>2. AllKnown' /\ ExcessInv'
  BY <1>1 DEF AllKnown, ExcessInv
<1> QED
  BY <1>1, <1>2, StripeOnly

LEMMA InstMore ==
  ASSUME ResumeAssumption, IndInv, MoreInv, NEW i \in Inst, InstStep(i)
  PROVE  MoreInv'
  BY PlanMore, PlanShortMore, PutMore, OpenMore, WriteMore, EndWriteMore, RcloneMore,
     WriteErrorMore DEF InstStep

\* A store that fails is no longer asked, and one that is not right may
\* give what is there.
LEMMA FetchMore ==
  ASSUME ResumeAssumption, IndInv, MoreInv, NEW h \in Hash, Fetch(h) \/ FetchFails(h)
  PROVE  MoreInv'
<1>1. PICK fail \in SUBSET known[h], r \in {"whole", "corrupt", "lost", "error"},
           last \in Store \cup {Absent} :
        /\ Fetches(h, fail, last, r)
        /\ OneVariable /\ fail # {} => last \in Store
        /\ r = "corrupt" => \E s \in known[h] : Exists(s, h) /\ ~Whole(s, h)
        /\ r \in {"lost", "error"} => fail = known[h]
  <2>1. CASE Fetch(h)
    <3>1. PICK fail \in SUBSET known[h], s \in known[h], last \in known[h] :
            "data" \in Load(s, h) /\ Fetches(h, fail, last, Checked(s, h))
      BY <2>1 DEF Fetch
    <3>2. Exists(s, h)
      <4>1. s \in Store
        BY DEF IndInv, TypeOK
      <4> QED
        BY <3>1, <4>1, ResumeAssumption DEF Load, CpLoad, DdLoad, RcloneLoad, ResumeAssumption
    <3>3. last \in Store
      BY DEF IndInv, TypeOK
    <3> QED
      BY <3>1, <3>2, <3>3 DEF Checked
  <2>2. CASE FetchFails(h)
    <3>1. CASE known[h] = {} /\ Fetches(h, {}, Absent, "lost")
      BY <3>1
    <3>2. ASSUME NEW s \in known[h], NEW r \in Load(s, h) \ {"data"}, Fetches(h, known[h], s, r)
          PROVE  r \in {"lost", "error"} /\ s \in Store
      <4>1. s \in Store
        BY DEF IndInv, TypeOK
      <4> QED
        BY <3>2, <4>1, ResumeAssumption DEF Load, CpLoad, DdLoad, RcloneLoad, ResumeAssumption
    <3> QED
      BY <2>2, <3>1, <3>2 DEF FetchFails
  <2> QED
    BY <2>1, <2>2
<1> PICK removed \in SUBSET Store : /\ known' = [g \in Hash |-> known[g] \ removed]
                                     /\ gone' = gone \cup fail \cup removed
  <2>1. fail \in SUBSET Store
    BY DEF IndInv, TypeOK
  <2> QED
    BY <1>1, <2>1, FetchesFacts
<1>2. /\ TypeOK /\ PhaseInv /\ WritersInv /\ AllKnown /\ ReadBack
      /\ phase = "on" /\ way = "restore" /\ got[h] = "none"
      /\ got' = [got EXCEPT ![h] = r]
      /\ known' = [g \in Hash |-> known[g] \ removed]
      /\ gone' = gone \cup fail \cup removed
      /\ UNCHANGED <<file, phase, way, missed, begun, todo, open>>
  BY <1>1 DEF IndInv, MoreInv, Fetches, runVars
<1>3. \A j \in Inst : open[j] = {}
  BY <1>2 DEF PhaseInv, WritersInv
<1>4. \A t \in Store, g \in Hash :
        Exists(t, g) => t \in known[g] \/ t \in gone \/ PassedOver(t, g)
  BY <1>2, <1>3 DEF AllKnown
<1>5. AllKnown'
  <2>1. \A t \in Store, g \in Hash :
          Exists(t, g)' => t \in known'[g] \/ t \in gone' \/ PassedOver(t, g)'
    BY <1>2, <1>4 DEF Exists, PassedOver
  <2> QED
    BY <2>1 DEF AllKnown
<1>6. ReadBack'
  <2> SUFFICES ASSUME NEW g \in Hash, got'[g] \notin {"none", "whole"}
               PROVE  \/ \E t \in Store : <<t, g>> \in Unwhole'
                      \/ \A s \in Store : Whole(s, g)' => s \in gone' \/ PassedOver(s, g)'
    BY DEF ReadBack
  <2>1. Unwhole' = Unwhole /\ \A s \in Store : Whole(s, g)' <=> Whole(s, g)
    BY <1>2 DEF Unwhole, Exists, Whole, Full
  <2>2. CASE g # h
    <3>1. got'[g] = got[g]
      BY <1>2, <2>2 DEF TypeOK
    <3>2. \/ \E t \in Store : <<t, g>> \in Unwhole
          \/ \A s \in Store : Whole(s, g) => s \in gone \/ PassedOver(s, g)
      BY <1>2, <3>1 DEF ReadBack
    <3> QED
      BY <1>2, <2>1, <3>2 DEF PassedOver
  <2>3. CASE g = h
    <3>1. r \in {"corrupt", "lost", "error"}
      BY <1>2, <2>3 DEF TypeOK
    <3>2. CASE r = "corrupt"
      <4>1. PICK s \in known[h] : Exists(s, h) /\ ~Whole(s, h)
        BY <1>1, <3>2
      <4>2. s \in Store
        BY <1>2 DEF TypeOK
      <4> QED
        BY <2>1, <2>3, <4>1, <4>2 DEF Unwhole
    <3>3. CASE r # "corrupt"
      <4>1. fail = known[h]
        BY <1>1, <3>1, <3>3
      <4>2. \A s \in Store : Whole(s, h) => Exists(s, h)
        BY FullIsFile DEF Whole, Exists
      <4> QED
        BY <1>2, <1>4, <2>1, <2>3, <4>1, <4>2 DEF PassedOver
    <3> QED
      BY <3>2, <3>3
  <2> QED
    BY <2>2, <2>3
<1>7. ExcessInv' /\ Unread'
  BY <1>2 DEF ExcessInv, Unread
<1> QED
  BY <1>5, <1>6, <1>7 DEF MoreInv

LEMMA NextMore == ASSUME ResumeAssumption, IndInv, MoreInv, [Next]_vars PROVE MoreInv'
<1>1. ASSUME NEW s \in Store, Stripe \/ Restore \/ Direct(s) PROVE MoreInv'
  BY <1>1, StartMore DEF Stripe, Restore, Direct
<1>2. ASSUME Stripe \/ Restore PROVE MoreInv'
  BY <1>2, StartMore DEF Stripe, Restore
<1>3. ASSUME NEW s \in Store, List(s) PROVE MoreInv'
  BY <1>3, ListMore
<1>4. ASSUME NEW s \in Store, ListError(s) PROVE MoreInv'
  BY <1>4, OverMore DEF ListError
<1>5. CASE Finish \/ Exit \/ Kill
  BY <1>5, OverMore DEF Finish, Exit, Kill
<1>6. CASE UNCHANGED vars
  <2>1. UNCHANGED <<file, phase, way, missed, known, gone, todo, open, got>>
    BY <1>6 DEF vars, runVars
  <2>2. AllKnown' /\ ExcessInv' /\ Unread'
    BY <2>1 DEF MoreInv, AllKnown, ExcessInv, Unread, PassedOver, Exists, Busy, Planned, Usable
  <2>3. ReadBack'
    BY <2>1 DEF MoreInv, ReadBack, Unwhole, PassedOver, Exists, Whole, Full
  <2> QED
    BY <2>2, <2>3 DEF MoreInv
<1> QED
  BY <1>1, <1>2, <1>3, <1>4, <1>5, <1>6, InstMore, FetchMore DEF Next, RunStep

\* A restore that lacks a chunk has met a copy that was cut short, or each store that
\* has it whole has failed, has been removed instead of one that had, or has left it
\* out of its listing, being a cp (mrd.Process, procs/cascade.go, stores/cp.go:75).
THEOREM RestoresFind == Spec => []ReadBack
<1>1. Init => MoreInv
  BY InitMore
<1>2. IndInv /\ MoreInv /\ [Next]_vars => MoreInv'
  BY ResumeAssumption, NextMore
<1>3. MoreInv => ReadBack
  BY DEF MoreInv
<1> QED
  BY <1>1, <1>2, <1>3, Invariance, PTL DEF Spec

\* The step that creates a file comes from a plan that counts it, and with it
\* all others of the chunk that are in use.
LEMMA CreatedIsPlanned ==
  ASSUME ResumeAssumption, IndInv, MoreInv, [Next]_vars, NEW s \in Store, NEW h \in Hash,
         way = "stripe", phase = "on", ~Exists(s, h), Exists(s, h)'
  PROVE  Cardinality({t \in Usable : Exists(t, h) /\ ~PassedOver(t, h)}) < Min
<1>1. /\ TypeOK /\ WritersInv /\ LockInv /\ KnownInv /\ AllKnown /\ ExcessInv
      /\ file'[s][h] # file[s][h]
  BY DEF IndInv, MoreInv, Exists
<1>2. PICK i \in Inst : HashOf[i] = h /\ s \in todo[i]
  <2>1. ASSUME NEW i \in Inst, NEW t \in Store, NEW f \in File, SetFile(t, HashOf[i], f)
        PROVE  t = s /\ HashOf[i] = h
    BY <1>1, <2>1, SetFileType, ResumeAssumption DEF ResumeAssumption
  <2>2. <<>> \in File /\ \A g \in Hash : Full(g) \in File
    BY FullIsFile DEF File
  <2>3. ASSUME NEW i \in Inst, NEW t \in Store,
               CpOpen(i, t) \/ DdOpen(i, t) \/ RcloneCopy(i, t)
        PROVE  t = s /\ HashOf[i] = h /\ t \in todo[i]
    <3>1. HashOf[i] \in Hash
      BY DEF ResumeAssumption
    <3>2. t \in todo[i]
      BY <2>3 DEF CpOpen, DdOpen, RcloneCopy, Opens
    <3>3. SetFile(t, HashOf[i], <<>>) \/ SetFile(t, HashOf[i], Full(HashOf[i]))
      BY <1>1, <2>3 DEF CpOpen, DdOpen, RcloneCopy
    <3> QED
      BY <2>1, <2>2, <3>1, <3>2, <3>3
  <2>4. ASSUME NEW i \in Inst, NEW t \in Store, Write(i, t) PROVE FALSE
    <3>1. t \in open[i] /\ Exists(t, HashOf[i]) /\ HashOf[i] \in Hash
      BY <1>1, <2>4 DEF Write, WritersInv, ResumeAssumption
    <3>2. t # s \/ HashOf[i] # h
      BY <3>1
    <3> QED
      BY <1>1, <2>4, <3>2, WriteFacts
  <2>5. ASSUME NEW i \in Inst, NEW t \in Store, EndWrite(i, t) \/ WriteError(i, t) PROVE FALSE
    BY <1>1, <2>5 DEF EndWrite, WriteError
  <2>6. ASSUME NEW i \in Inst, Plan(i) \/ PlanShort(i) \/ Put(i) PROVE FALSE
    BY <1>1, <2>6 DEF Plan, PlanShort, Put
  <2>7. ASSUME NEW t \in Store, List(t) \/ ListError(t) \/ Direct(t) PROVE FALSE
    BY <1>1, <2>7 DEF List, ListError, Over, Direct, StartRun
  <2>8. ASSUME NEW g \in Hash, Fetch(g) \/ FetchFails(g) PROVE FALSE
    BY <1>1, <2>8 DEF Fetch, FetchFails, Fetches
  <2>9. ASSUME Stripe \/ Restore \/ Finish \/ Exit \/ Kill \/ UNCHANGED vars PROVE FALSE
    BY <1>1, <2>9 DEF Stripe, Restore, StartRun, Finish, Exit, Kill, Over, vars
  <2> QED
    BY <2>3, <2>4, <2>5, <2>6, <2>7, <2>8, <2>9 DEF Next, RunStep, InstStep
<1> DEFINE have == {t \in Usable : Exists(t, h) /\ ~PassedOver(t, h)}
<1>3. Busy(i) /\ Cardinality(Planned(i)) <= Min
  BY <1>1, <1>2 DEF Busy, ExcessInv
<1>4. have \subseteq Planned(i)
  <2> SUFFICES ASSUME NEW t \in Usable, Exists(t, h), ~PassedOver(t, h) PROVE t \in Planned(i)
    OBVIOUS
  <2>1. t \in Store /\ t \notin gone
    BY DEF Usable
  <2>2. t \in known[h] \/ \E j \in Inst : HashOf[j] = h /\ t \in open[j]
    BY <1>1, <2>1 DEF AllKnown
  <2>3. ASSUME NEW j \in Inst, HashOf[j] = h, t \in open[j] PROVE j = i
    <3>1. Busy(j)
      BY <2>3 DEF Busy
    <3> QED
      BY <1>1, <1>2, <1>3, <2>3, <3>1 DEF LockInv
  <2> QED
    BY <1>2, <2>2, <2>3 DEF Planned
<1>5. s \in Planned(i) /\ s \notin have
  BY <1>2 DEF Planned
<1>6. Planned(i) \subseteq Store /\ IsFiniteSet(Store) /\ Min \in Nat
  BY <1>1 DEF Planned, TypeOK, ResumeAssumption, Usable
<1>7. IsFiniteSet(Planned(i)) /\ IsFiniteSet(have)
  BY <1>4, <1>6, FS_Subset
<1> HIDE DEF have
<1>8. have \cup {s} \subseteq Planned(i)
  BY <1>4, <1>5
<1>9. /\ Cardinality(have \cup {s}) = Cardinality(have) + 1
      /\ IsFiniteSet(have \cup {s})
  BY <1>5, <1>7, FS_AddElement
<1>10. Cardinality(have \cup {s}) <= Cardinality(Planned(i))
  BY <1>7, <1>8, FS_Subset
<1>11. Cardinality(have) \in Nat /\ Cardinality(Planned(i)) \in Nat
  BY <1>7, FS_CardinalityType
<1>12. Cardinality(have) < Min
  BY <1>3, <1>6, <1>9, <1>10, <1>11
<1> QED
  BY <1>12 DEF have

\* A backup that is run again, or that goes on after failures, makes a copy
\* only where one is missing: it creates no file while Min stores in use have
\* one, but for what cp's listing has left out (the listing of stores/stores.go and
\* the locks of stores/stripe).
THEOREM NoCopyInExcess == Spec => NoneInExcess
<1>1. Init => MoreInv
  BY InitMore
<1>2. IndInv /\ MoreInv /\ [Next]_vars => MoreInv'
  BY ResumeAssumption, NextMore
<1>3. IndInv /\ MoreInv /\ [Next]_vars
        => \A s \in Store, h \in Hash :
             way = "stripe" /\ phase = "on" /\ ~Exists(s, h) /\ Exists(s, h)'
               => Cardinality({t \in Usable : Exists(t, h) /\ ~PassedOver(t, h)}) < Min
  BY ResumeAssumption, CreatedIsPlanned
<1> QED
  BY <1>1, <1>2, <1>3, Invariance, PTL DEF Spec, NoneInExcess
-----------------------------------------------------------------------------
(* Runs get on.                                                            *)

EndInv ==
  /\ phase = "listing" => dest = Store /\ listed \subseteq dest /\ listed # dest
  /\ stuck \subseteq failed
  /\ \A i \in Inst : \A s \in open[i] : off[i][s] <= Size[HashOf[i]]

\* A finite set has subsets of each size up to its own.
LEMMA SubsetOfSize ==
  ASSUME NEW S, IsFiniteSet(S), NEW n \in Nat, n <= Cardinality(S)
  PROVE  \E T \in SUBSET S : Cardinality(T) = n
<1> DEFINE c == Cardinality(S)
<1>1. c \in Nat
  BY FS_CardinalityType
<1>2. IsFiniteSet(1 .. c) /\ Cardinality(1 .. c) = c
  BY <1>1, FS_Interval
<1>3. PICK b \in Bijection(1 .. c, S) : TRUE
  BY <1>2, FS_SameCardinalityBij DEF ExistsBijection
<1>4. /\ b \in [1 .. c -> S]
      /\ \A i, j \in 1 .. c : b[i] = b[j] => i = j
  BY <1>3 DEF Bijection, Injection, IsInjective
<1> DEFINE T == {b[i] : i \in 1 .. n}
           f == [i \in 1 .. n |-> b[i]]
<1>5. T \in SUBSET S /\ 1 .. n \subseteq 1 .. c
  BY <1>1, <1>4
<1>6. f \in Bijection(1 .. n, T)
  BY <1>4, <1>5 DEF Bijection, Injection, Surjection, IsInjective
<1>7. IsFiniteSet(1 .. n) /\ Cardinality(1 .. n) = n
  BY FS_Interval
<1>8. Cardinality(T) = n
  <2> HIDE DEF T, f
  <2>1. ExistsBijection(1 .. n, T)
    BY <1>6 DEF ExistsBijection
  <2> QED
    BY <1>7, <2>1, FS_Bijection
<1> QED
  BY <1>5, <1>8

LEMMA JobsExist ==
  ASSUME ResumeAssumption, TypeOK, NEW h \in Hash, Cardinality(Usable) >= Min
  PROVE  \E jobs \in SUBSET (Usable \ known[h]) : Cardinality(jobs) = Missing(h)
<1> DEFINE U == Usable
           O == known[h]
<1>1. Missing(h) = IF Cardinality(O \cap U) >= Min THEN 0 ELSE Min - Cardinality(O \cap U)
  BY DEF Missing, Lacking
<1>2. IsFiniteSet(U) /\ Min \in Nat /\ Cardinality(U) >= Min
  <2>1. Usable \in SUBSET Store
    BY DEF Usable
  <2> QED
    BY <2>1, FS_Subset DEF ResumeAssumption
<1> HIDE DEF U, O
<1>3. /\ IsFiniteSet(O \cap U) /\ IsFiniteSet(U \ O)
      /\ Cardinality(O \cap U) \in Nat /\ Cardinality(U \ O) \in Nat /\ Cardinality(U) \in Nat
  <2>1. O \cap U \in SUBSET U /\ U \ O \in SUBSET U
    OBVIOUS
  <2> QED
    BY <1>2, <2>1, FS_Subset, FS_CardinalityType
<1>4. Cardinality(U) = Cardinality(O \cap U) + Cardinality(U \ O) - 0
  <2>1. U = (O \cap U) \cup (U \ O) /\ (O \cap U) \cap (U \ O) = {}
    OBVIOUS
  <2>2. Cardinality((O \cap U) \cap (U \ O)) = 0
    BY <2>1, FS_EmptySet, Zenon
  <2>3. Cardinality((O \cap U) \cup (U \ O)) = Cardinality(O \cap U) + Cardinality(U \ O) - 0
    BY <1>3, <2>2, FS_Union
  <2> QED
    BY <2>1, <2>3, Zenon
<1>5. Missing(h) \in Nat /\ Missing(h) <= Cardinality(U \ O)
  BY <1>1, <1>2, <1>3, <1>4
<1>6. \E jobs \in SUBSET (U \ O) : Cardinality(jobs) = Missing(h)
  BY <1>3, <1>5, SubsetOfSize
<1> QED
  BY <1>6 DEF U, O

LEMMA InitEnd == ASSUME ResumeAssumption, Init PROVE EndInv
BY DEF Init, EndInv

LEMMA FreshEnd ==
  ASSUME ResumeAssumption, TypeOK, Fresh, phase' = "listing" => dest' = Store, Store # {}
  PROVE  EndInv'
<1>1. /\ listed' = {} /\ failed' = {} /\ stuck' = {}
      /\ \A i \in Inst : todo'[i] = {} /\ open'[i] = {}
  BY FreshType
<1> QED
  BY <1>1 DEF EndInv

\* A step of an instance.
LEMMA InstEnd ==
  ASSUME ResumeAssumption, IndInv, EndInv, NEW i \in Inst, InstStep(i)
  PROVE  EndInv'
<1>1. TypeOK /\ WritersInv
  BY DEF IndInv
<1>2. phase = "on" /\ UNCHANGED runVars
  BY DEF InstStep, Plan, PlanShort, Put, CpOpen, DdOpen, Opens, Write, EndWrite, RcloneCopy,
         WriteError, Begins
<1>3. stuck' \subseteq failed'
  BY DEF EndInv, InstStep, Plan, PlanShort, Put, CpOpen, DdOpen, Opens, Write, EndWrite,
         RcloneCopy, WriteError
<1>4. ASSUME NEW j \in Inst, NEW t \in open'[j] PROVE off'[j][t] <= Size[HashOf[j]]
  <2>1. \A s \in open[j] : off[j][s] <= Size[HashOf[j]]
    BY DEF EndInv
  <2>2. CASE open' = open /\ off' = off
    BY <1>4, <2>1, <2>2
  <2>3. ASSUME NEW s \in Store, Opens(i, s) PROVE off'[j][t] <= Size[HashOf[j]]
    <3>1. /\ t \in Store /\ HashOf[j] \in Hash /\ Size[HashOf[j]] \in Nat
          /\ t \in open[j] \/ (t = s /\ j = i)
          /\ off'[j][t] = IF j = i /\ t = s THEN 0 ELSE off[j][t]
      BY <1>1, <1>4, <2>3 DEF Opens, TypeOK, ResumeAssumption
    <3>2. CASE j = i /\ t = s
      BY <3>1, <3>2
    <3>3. CASE ~(j = i /\ t = s)
      BY <2>1, <3>1, <3>3
    <3> QED
      BY <3>2, <3>3
  <2>4. ASSUME NEW s \in Store, Write(i, s) PROVE off'[j][t] <= Size[HashOf[j]]
    <3>1. t \in open[j] /\ t \in Store /\ HashOf[j] \in Hash /\ Size[HashOf[j]] \in Nat
      BY <1>1, <1>4, <2>4 DEF Write, TypeOK, ResumeAssumption
    <3>2. /\ off[i][s] \in Nat /\ off[i][s] < Size[HashOf[i]]
          /\ off'[j][t] = IF j = i /\ t = s THEN off[i][s] + 1 ELSE off[j][t]
      BY <1>1, <2>4, <3>1, WriteFacts
    <3>3. CASE j = i /\ t = s
      BY <3>1, <3>2, <3>3
    <3>4. CASE ~(j = i /\ t = s)
      BY <2>1, <3>1, <3>2, <3>4
    <3> QED
      BY <3>3, <3>4
  <2>5. ASSUME NEW s \in Store, EndWrite(i, s) \/ WriteError(i, s)
        PROVE  off'[j][t] <= Size[HashOf[j]]
    <3>1. \A k \in Inst : open'[k] = IF k = i THEN open[i] \ {s} ELSE open[k]
      <4>1. CASE EndWrite(i, s)
        BY <1>1, <4>1, EndWriteFacts
      <4>2. CASE WriteError(i, s)
        BY <1>1, <4>2, WriteErrorFacts
      <4> QED
        BY <2>5, <4>1, <4>2
    <3>2. off' = off
      BY <2>5 DEF EndWrite, WriteError
    <3>3. t \in open[j]
      BY <1>4, <3>1
    <3> QED
      BY <2>1, <3>2, <3>3
  <2>6. ASSUME NEW s \in Store, RcloneCopy(i, s) PROVE open' = open /\ off' = off
    BY <2>6 DEF RcloneCopy
  <2>7. ASSUME Plan(i) \/ PlanShort(i) \/ Put(i) PROVE open' = open /\ off' = off
    BY <2>7 DEF Plan, PlanShort, Put
  <2> QED
    BY <2>2, <2>3, <2>4, <2>5, <2>6, <2>7 DEF InstStep, CpOpen, DdOpen
<1> QED
  BY <1>2, <1>3, <1>4 DEF EndInv, runVars

LEMMA NextEnd ==
  ASSUME ResumeAssumption, IndInv, EndInv, [Next]_vars, Store # {}
  PROVE  EndInv'
<1>1. TypeOK /\ PhaseInv
  BY DEF IndInv
<1>2. CASE Stripe \/ Restore \/ \E s \in Store : Direct(s)
  BY <1>1, <1>2, FreshEnd DEF Stripe, Restore, Direct, StartRun
<1>3. ASSUME NEW s \in Store, List(s) PROVE EndInv'
  <2>1. /\ phase = "listing" /\ s \in dest /\ listed' = listed \cup {s}
        /\ phase' = IF listed' = dest THEN "on" ELSE "listing"
        /\ UNCHANGED <<dest, open, off, failed, stuck>>
    BY <1>3 DEF List
  <2> QED
    BY <2>1 DEF EndInv
<1>4. CASE (\E s \in Store : ListError(s)) \/ Finish \/ Exit \/ Kill
  BY <1>1, <1>4, FreshEnd DEF ListError, Finish, Exit, Kill, Over
<1>5. ASSUME NEW i \in Inst, InstStep(i) PROVE EndInv'
  BY <1>5, InstEnd
<1>6. ASSUME NEW h \in Hash, Fetch(h) \/ FetchFails(h) PROVE EndInv'
  <2>1. UNCHANGED <<phase, dest, listed, open, off, failed, stuck>>
    BY <1>6 DEF Fetch, FetchFails, Fetches, runVars
  <2> QED
    BY <2>1 DEF EndInv
<1>7. CASE UNCHANGED vars
  BY <1>7 DEF vars, runVars, EndInv
<1> QED
  BY <1>2, <1>3, <1>4, <1>5, <1>6, <1>7 DEF Next, RunStep

LEMMA SomeMoves ==
  ASSUME ResumeAssumption, IndInv, EndInv
  PROVE  NeverStuck
<1> SUFFICES ASSUME phase # "off", ~CanMove PROVE FALSE
  BY DEF NeverStuck
<1>1. /\ TypeOK /\ phase = "on" /\ failed = {} /\ ~Done /\ begun \subseteq Inst
      /\ way \in {"stripe", "direct", "restore"}
  BY DEF IndInv, TypeOK, CanMove, EndInv
<1>2. ASSUME NEW i \in Inst PROVE ~Busy(i) /\ i \notin stuck
  BY <1>1 DEF Busy, CanMove, EndInv
<1>3. way # "restore"
  BY <1>1 DEF CanMove, Done
<1>4. PICK i \in Inst : i \notin begun
  BY <1>1, <1>2, <1>3 DEF Done
<1>5. HashOf[i] \in Hash /\ ~Locked(HashOf[i])
  BY <1>1, <1>2 DEF Locked, ResumeAssumption
<1>6. CanBegin(i)
  BY <1>1, <1>3, <1>4, <1>5, JobsExist DEF CanBegin
<1> QED
  BY <1>1, <1>6 DEF CanMove

\* A run is never stuck, though Procs keeps the locks of a group that it returns an
\* error for (stores/stripe/stripe.go:95) and other instances wait for them.
THEOREM NoDeadlock == ASSUME Store # {} PROVE Spec => []NeverStuck
<1>1. Init => EndInv
  BY ResumeAssumption, InitEnd
<1>2. IndInv /\ EndInv /\ [Next]_vars => EndInv'
  BY ResumeAssumption, NextEnd
<1>3. IndInv /\ EndInv => NeverStuck
  BY ResumeAssumption, SomeMoves
<1> QED
  BY <1>1, <1>2, <1>3, Invariance, PTL DEF Spec
-----------------------------------------------------------------------------
(* Runs end.                                                               *)

\* Left' and Left, set by set.
LEMMA LeftBySet ==
  ASSUME PhaseLeft' \subseteq PhaseLeft, ListLeft' \subseteq ListLeft,
         BeginLeft' \subseteq BeginLeft, OpenLeft' \subseteq OpenLeft,
         CloseLeft' \subseteq CloseLeft, BlocksLeft' \subseteq BlocksLeft,
         GotLeft' \subseteq GotLeft,
         \/ PhaseLeft' # PhaseLeft \/ ListLeft' # ListLeft \/ BeginLeft' # BeginLeft
         \/ OpenLeft' # OpenLeft \/ CloseLeft' # CloseLeft \/ BlocksLeft' # BlocksLeft
         \/ GotLeft' # GotLeft
  PROVE  Shrinks
<1>1. /\ Left' = <<PhaseLeft', ListLeft', BeginLeft', OpenLeft', CloseLeft', BlocksLeft', GotLeft'>>
      /\ Left = <<PhaseLeft, ListLeft, BeginLeft, OpenLeft, CloseLeft, BlocksLeft, GotLeft>>
  BY DEF Left
<1>2. \A k \in 1..7 : k = 1 \/ k = 2 \/ k = 3 \/ k = 4 \/ k = 5 \/ k = 6 \/ k = 7
  OBVIOUS
<1>3. \A k \in 1..7 : Left'[k] \subseteq Left[k]
  BY <1>1, <1>2
<1>4. Left' # Left
  BY <1>1
<1> QED
  BY <1>3, <1>4 DEF Shrinks

\* The end of a run leaves nothing of it.
LEMMA OverShrinks ==
  ASSUME phase # "off", phase' = "off", TypeOK
  PROVE  Shrinks
<1>1. /\ PhaseLeft' = {} /\ ListLeft' = {} /\ BeginLeft' = {} /\ OpenLeft' = {}
      /\ CloseLeft' = {} /\ BlocksLeft' = {} /\ GotLeft' = {}
  BY DEF PhaseLeft, ListLeft, BeginLeft, OpenLeft, CloseLeft, BlocksLeft, GotLeft
<1>2. phase \in PhaseLeft
  BY DEF PhaseLeft, TypeOK
<1> QED
  BY <1>1, <1>2, LeftBySet

LEMMA ListShrinks ==
  ASSUME TypeOK, NEW s \in Store, List(s)
  PROVE  Shrinks
<1>1. /\ phase = "listing" /\ s \notin listed /\ listed' = listed \cup {s}
      /\ phase' \in {"on", "listing"}
      /\ UNCHANGED <<begun, todo, open, off, got>>
  BY DEF List
<1>2. PhaseLeft' \subseteq PhaseLeft /\ ListLeft' \subseteq ListLeft
  BY <1>1 DEF PhaseLeft, ListLeft
<1>3. s \in ListLeft /\ s \notin ListLeft'
  BY <1>1 DEF ListLeft
<1>4. \A i, t : Unopened(i, t)' = Unopened(i, t)
  BY <1>1 DEF Unopened
<1>5. /\ BeginLeft' = BeginLeft /\ OpenLeft' = OpenLeft /\ CloseLeft' = CloseLeft
      /\ GotLeft' = GotLeft
  BY <1>1, <1>4 DEF BeginLeft, OpenLeft, CloseLeft, GotLeft
<1>6. BlocksLeft' = BlocksLeft
  BY <1>1, <1>4 DEF BlocksLeft
<1> QED
  BY <1>2, <1>3, <1>5, <1>6, LeftBySet

\* What an instance opens, closes and writes, and what chunks are got, is not
\* left any more.
LEMMA WithinRun ==
  ASSUME ResumeAssumption, TypeOK, phase = "on", UNCHANGED <<phase, listed>>, begun \subseteq begun',
         \A i \in Inst, s \in Store :
           /\ Unopened(i, s)' => Unopened(i, s)
           /\ s \in open'[i] => Unopened(i, s) \/ s \in open[i]
           /\ s \in open'[i] /\ ~Unopened(i, s) => off'[i][s] >= off[i][s],
         off' \in [Inst -> [Store -> Nat]],
         \A h \in Hash : got'[h] = "none" => got[h] = "none"
  PROVE  /\ PhaseLeft' \subseteq PhaseLeft /\ ListLeft' \subseteq ListLeft
         /\ BeginLeft' \subseteq BeginLeft /\ OpenLeft' \subseteq OpenLeft
         /\ CloseLeft' \subseteq CloseLeft /\ BlocksLeft' \subseteq BlocksLeft
         /\ GotLeft' \subseteq GotLeft
<1>1. /\ PhaseLeft' \subseteq PhaseLeft /\ ListLeft' \subseteq ListLeft
      /\ BeginLeft' \subseteq BeginLeft /\ GotLeft' \subseteq GotLeft
  BY DEF PhaseLeft, ListLeft, BeginLeft, GotLeft
<1>2. \A x \in Inst \X Store : x[1] \in Inst /\ x[2] \in Store
  OBVIOUS
<1>3. OpenLeft' \subseteq OpenLeft /\ CloseLeft' \subseteq CloseLeft
  BY <1>2 DEF OpenLeft, CloseLeft
<1>4. ASSUME NEW x \in BlocksLeft' PROVE x \in BlocksLeft
  <2> DEFINE B == UNION {{i} \X Store \X (1..Size[HashOf[i]]) : i \in Inst}
  <2>1. /\ x \in B
        /\ Unopened(x[1], x[2])' \/ (x[2] \in open'[x[1]] /\ x[3] > off'[x[1]][x[2]])
    BY <1>4 DEF BlocksLeft
  <2>2. x[1] \in Inst /\ x[2] \in Store /\ x[3] \in Int
    <3>1. PICK i \in Inst : x \in {i} \X Store \X (1..Size[HashOf[i]])
      BY <2>1
    <3> QED
      BY <3>1
  <2> HIDE DEF B
  <2>3. off[x[1]][x[2]] \in Nat /\ off'[x[1]][x[2]] \in Nat
    BY <2>2 DEF TypeOK
  <2>4. Unopened(x[1], x[2]) \/ (x[2] \in open[x[1]] /\ x[3] > off[x[1]][x[2]])
    <3>1. PICK i \in Inst, s \in Store : i = x[1] /\ s = x[2]
      BY <2>2
    <3>2. Unopened(i, s)' \/ (s \in open'[i] /\ x[3] > off'[i][s])
      <4>1. Unopened(i, s)' <=> Unopened(x[1], x[2])'
        BY <3>1
      <4> QED
        BY <2>1, <3>1, <4>1
    <3>3. Unopened(i, s) \/ (s \in open[i] /\ x[3] > off[i][s])
      BY <2>2, <2>3, <3>1, <3>2
    <3> QED
      BY <3>1, <3>3
  <2> QED
    BY <2>1, <2>4 DEF BlocksLeft, B
<1> QED
  BY <1>1, <1>3, <1>4

LEMMA BeginShrinks ==
  ASSUME ResumeAssumption, IndInv, NEW i \in Inst, Plan(i) \/ PlanShort(i) \/ Put(i)
  PROVE  Shrinks
<1>1. TypeOK /\ WritersInv /\ off \in [Inst -> [Store -> Nat]]
  BY DEF IndInv, TypeOK
<1>2. /\ phase = "on" /\ i \notin begun /\ begun' = begun \cup {i}
      /\ UNCHANGED <<phase, listed, open, off, got>>
  BY DEF Plan, PlanShort, Put, Begins, runVars
<1>3. \A j \in Inst : j # i => todo'[j] = todo[j]
  BY <1>1 DEF Plan, PlanShort, Put, TypeOK
<1>4. \A j \in Inst, s \in Store :
        /\ Unopened(j, s)' => Unopened(j, s)
        /\ s \in open'[j] => Unopened(j, s) \/ s \in open[j]
        /\ s \in open'[j] /\ ~Unopened(j, s) => off'[j][s] >= off[j][s]
  <2> SUFFICES ASSUME NEW j \in Inst, NEW s \in Store
               PROVE  /\ Unopened(j, s)' => Unopened(j, s)
                      /\ off'[j][s] >= off[j][s]
    BY <1>2
  <2>1. off[j][s] \in Nat /\ off'[j][s] = off[j][s]
    BY <1>1, <1>2
  <2> QED
    BY <1>2, <1>3, <2>1 DEF Unopened
<1>5. i \in BeginLeft /\ i \notin BeginLeft'
  BY <1>2 DEF BeginLeft
<1> QED
  BY <1>1, <1>2, <1>4, <1>5, WithinRun, LeftBySet

LEMMA FileShrinks ==
  ASSUME ResumeAssumption, IndInv, NEW i \in Inst, NEW s \in Store,
         \/ CpOpen(i, s) \/ DdOpen(i, s) \/ Write(i, s) \/ EndWrite(i, s)
         \/ RcloneCopy(i, s) \/ WriteError(i, s)
  PROVE  Shrinks
<1>1. /\ TypeOK /\ WritersInv /\ off \in [Inst -> [Store -> Nat]]
      /\ todo \in [Inst -> SUBSET Store] /\ open \in [Inst -> SUBSET Store]
      /\ todo[i] \cap open[i] = {} /\ (i \notin begun => todo[i] = {} /\ open[i] = {})
  BY DEF IndInv, TypeOK, WritersInv
<1>2. /\ phase = "on" /\ s \in todo[i] \cup open[i]
      /\ UNCHANGED <<phase, listed, begun, got>>
  BY DEF CpOpen, DdOpen, Opens, Write, EndWrite, RcloneCopy, WriteError, runVars
<1> DEFINE x == <<i, s>>
<1>3. x \in Inst \X Store /\ x[1] = i /\ x[2] = s
  OBVIOUS
<1> HIDE DEF x
<1>4. CASE s \in todo[i]
  <2>1. s \notin open[i]
    BY <1>1, <1>4
  <2>2. /\ todo' = [todo EXCEPT ![i] = todo[i] \ {s}]
        /\ \/ open' = [open EXCEPT ![i] = open[i] \cup {s}] /\ off' = [off EXCEPT ![i][s] = 0]
           \/ open' = open /\ off' = off
           \/ open' = [open EXCEPT ![i] = open[i] \ {s}] /\ off' = off
    BY <2>1 DEF CpOpen, DdOpen, Opens, Write, EndWrite, RcloneCopy, WriteError
  <2>3. /\ \A j \in Inst : /\ todo'[j] = IF j = i THEN todo[i] \ {s} ELSE todo[j]
                           /\ j # i => open'[j] = open[j]
        /\ open'[i] \subseteq open[i] \cup {s}
    BY <1>1, <2>2
  <2>4. /\ off' \in [Inst -> [Store -> Nat]]
        /\ \A j \in Inst, t \in Store : j # i \/ t # s => off'[j][t] = off[j][t]
    <3>1. CASE off' = [off EXCEPT ![i][s] = 0]
      BY <1>1, <3>1
    <3>2. CASE off' = off
      BY <1>1, <3>2
    <3>3. off' = [off EXCEPT ![i][s] = 0] \/ off' = off
      BY <2>2
    <3> QED
      BY <3>1, <3>2, <3>3
  <2>5. ASSUME NEW j \in Inst, NEW t \in Store
        PROVE  /\ Unopened(j, t)' => Unopened(j, t)
               /\ t \in open'[j] => Unopened(j, t) \/ t \in open[j]
               /\ t \in open'[j] /\ ~Unopened(j, t) => off'[j][t] >= off[j][t]
    <3>1. off[j][t] \in Nat
      BY <1>1
    <3>2. CASE j = i /\ t = s
      <4>1. Unopened(j, t)
        BY <1>4, <3>2 DEF Unopened
      <4> QED
        BY <4>1
    <3>3. CASE j # i \/ t # s
      <4>1. off'[j][t] = off[j][t]
        BY <2>4, <3>3
      <4>2. t \in open'[j] => t \in open[j]
        BY <2>3, <3>3
      <4>3. Unopened(j, t)' => Unopened(j, t)
        BY <1>2, <2>3, <3>3 DEF Unopened
      <4> QED
        BY <3>1, <4>1, <4>2, <4>3
    <3> QED
      BY <3>2, <3>3
  <2>6. x \in OpenLeft /\ x \notin OpenLeft'
    BY <1>1, <1>2, <1>3, <1>4, <2>3 DEF OpenLeft, Unopened
  <2> QED
    BY <1>1, <1>2, <2>4, <2>5, <2>6, WithinRun, LeftBySet
<1>5. CASE s \in open[i]
  <2>1. s \notin todo[i] /\ i \in begun
    BY <1>1, <1>5
  <2>2. \A j \in Inst : todo'[j] = todo[j]
    <3>1. CASE Write(i, s) \/ EndWrite(i, s)
      BY <3>1 DEF Write, EndWrite
    <3>2. CASE WriteError(i, s)
      <4>1. \A j \in Inst : todo'[j] = IF j = i THEN todo[i] \ {s} ELSE todo[j]
        BY <1>1, <3>2, WriteErrorFacts
      <4>2. todo[i] \ {s} = todo[i]
        BY <2>1
      <4> QED
        BY <4>1, <4>2
    <3>3. CASE CpOpen(i, s) \/ DdOpen(i, s) \/ RcloneCopy(i, s)
      BY <2>1, <3>3 DEF CpOpen, DdOpen, Opens, RcloneCopy
    <3> QED
      BY <3>1, <3>2, <3>3
  <2>3. \A j, t : j \in Inst => (Unopened(j, t)' <=> Unopened(j, t))
    BY <1>2, <2>2 DEF Unopened
  <2>4. CASE Write(i, s)
    <3>1. /\ open' = open /\ off[i][s] \in Nat /\ off[i][s] < Size[HashOf[i]]
          /\ off' \in [Inst -> [Store -> Nat]] /\ HashOf[i] \in Hash
          /\ \A j \in Inst : \A t \in Store :
               off'[j][t] = IF j = i /\ t = s THEN off[i][s] + 1 ELSE off[j][t]
      BY <1>1, <2>4, WriteFacts DEF Write
    <3>2. \A j \in Inst, t \in Store : off'[j][t] >= off[j][t]
      <4> SUFFICES ASSUME NEW j \in Inst, NEW t \in Store PROVE off'[j][t] >= off[j][t]
        OBVIOUS
      <4>1. off[j][t] \in Nat
        BY <1>1
      <4>2. off'[j][t] = off[j][t] \/ off'[j][t] = off[j][t] + 1
        BY <3>1
      <4> QED
        BY <4>1, <4>2
    <3>0. PICK n \in Nat : n = off[i][s]
      BY <3>1
    <3> DEFINE y == <<i, s, n + 1>>
               B == UNION {{j} \X Store \X (1..Size[HashOf[j]]) : j \in Inst}
    <3>3. y \in B /\ y[1] = i /\ y[2] = s /\ y[3] = n + 1 /\ y[3] > off[i][s]
      <4>1. Size[HashOf[i]] \in Nat
        BY <3>1 DEF ResumeAssumption
      <4>2. n + 1 \in 1..Size[HashOf[i]]
        BY <3>1, <3>0, <4>1
      <4>3. y \in {i} \X Store \X (1..Size[HashOf[i]])
        BY <4>2
      <4> QED
        BY <3>0, <4>3
    <3>4. off'[i][s] = n + 1
      BY <3>1, <3>0
    <3> HIDE DEF y, B
    <3>5. ~Unopened(i, s) /\ ~Unopened(i, s)'
      BY <2>1, <2>3 DEF Unopened
    <3>6. y \in BlocksLeft
      BY <1>2, <1>5, <3>1, <3>3 DEF BlocksLeft, B
    <3>7. y \notin BlocksLeft'
      <4> SUFFICES ASSUME y \in BlocksLeft' PROVE FALSE
        OBVIOUS
      <4>1. Unopened(y[1], y[2])' \/ y[3] > off'[y[1]][y[2]]
        BY DEF BlocksLeft
      <4>2. Unopened(y[1], y[2])' <=> Unopened(y[1], y[2])
        BY <2>3, <3>3
      <4>3. ~Unopened(y[1], y[2])
        BY <3>3, <3>5
      <4> QED
        BY <3>1, <3>3, <3>4, <4>1, <4>2, <4>3
    <3> QED
      BY <1>1, <1>2, <2>3, <3>1, <3>2, <3>6, <3>7, WithinRun, LeftBySet
  <2>5. CASE EndWrite(i, s) \/ WriteError(i, s)
    <3>1. off' = off
      BY <2>5 DEF EndWrite, WriteError
    <3>2. open' = [open EXCEPT ![i] = open[i] \ {s}]
      BY <2>5 DEF EndWrite, WriteError
    <3>3. \A j \in Inst : open'[j] = IF j = i THEN open[i] \ {s} ELSE open[j]
      BY <1>1, <3>2
    <3>4. \A j \in Inst, t \in Store : off'[j][t] >= off[j][t]
      <4> SUFFICES ASSUME NEW j \in Inst, NEW t \in Store PROVE off'[j][t] >= off[j][t]
        OBVIOUS
      <4>1. off[j][t] \in Nat
        BY <1>1
      <4> QED
        BY <3>1, <4>1
    <3>5. x \in CloseLeft
      BY <1>2, <1>3, <1>5 DEF CloseLeft
    <3>6. x \notin CloseLeft'
      <4> SUFFICES ASSUME x \in CloseLeft' PROVE FALSE
        OBVIOUS
      <4>1. Unopened(x[1], x[2])' \/ x[2] \in open'[x[1]]
        BY DEF CloseLeft
      <4>2. Unopened(x[1], x[2])' <=> Unopened(x[1], x[2])
        BY <1>3, <2>3
      <4>3. ~Unopened(x[1], x[2])
        BY <1>3, <2>1 DEF Unopened
      <4> QED
        BY <1>3, <3>3, <4>1, <4>2, <4>3
    <3>7. \A j \in Inst, t \in Store : t \in open'[j] => t \in open[j]
      BY <3>3
    <3> QED
      BY <1>1, <1>2, <2>3, <3>1, <3>4, <3>5, <3>6, <3>7, WithinRun, LeftBySet
  <2>6. CASE CpOpen(i, s) \/ DdOpen(i, s) \/ RcloneCopy(i, s)
    BY <2>1, <2>6 DEF CpOpen, DdOpen, Opens, RcloneCopy
  <2> QED
    BY <2>4, <2>5, <2>6
<1> QED
  BY <1>2, <1>4, <1>5

LEMMA FetchShrinks ==
  ASSUME ResumeAssumption, TypeOK, NEW h \in Hash, Fetch(h) \/ FetchFails(h)
  PROVE  Shrinks
<1>1. PICK r : r # "none" /\ got' = [got EXCEPT ![h] = r]
  <2>1. CASE Fetch(h)
    <3>1. PICK fail \in SUBSET known[h], s \in known[h], last \in known[h] :
            Fetches(h, fail, last, Checked(s, h))
      BY <2>1 DEF Fetch
    <3>2. Checked(s, h) # "none"
      BY DEF Checked
    <3> QED
      BY <3>1, <3>2 DEF Fetches
  <2>2. CASE Fetches(h, {}, Absent, "lost")
    BY <2>2 DEF Fetches
  <2>3. ASSUME NEW s \in known[h], NEW r \in Load(s, h) \ {"data"}, Fetches(h, known[h], s, r)
        PROVE  r # "none" /\ got' = [got EXCEPT ![h] = r]
    <3>1. s \in Store
      BY DEF TypeOK
    <3>2. r # "none"
      BY <3>1 DEF Load, CpLoad, DdLoad, RcloneLoad, ResumeAssumption
    <3> QED
      BY <2>3, <3>2 DEF Fetches
  <2> QED
    BY <2>1, <2>2, <2>3 DEF FetchFails
<1>2. /\ phase = "on" /\ got[h] = "none"
      /\ UNCHANGED <<phase, listed, begun, todo, open, off>>
  BY DEF Fetch, FetchFails, Fetches, runVars
<1>3. \A g \in Hash : got'[g] = IF g = h THEN r ELSE got[g]
  BY <1>1 DEF TypeOK
<1>4. h \in GotLeft /\ h \notin GotLeft'
  BY <1>1, <1>2, <1>3 DEF GotLeft
<1>5. \A i \in Inst, s \in Store :
        /\ Unopened(i, s)' => Unopened(i, s)
        /\ s \in open'[i] => Unopened(i, s) \/ s \in open[i]
        /\ s \in open'[i] /\ ~Unopened(i, s) => off'[i][s] >= off[i][s]
  <2> SUFFICES ASSUME NEW i \in Inst, NEW s \in Store
               PROVE  (Unopened(i, s)' => Unopened(i, s)) /\ off'[i][s] >= off[i][s]
    BY <1>2
  <2>1. off[i][s] \in Nat
    BY DEF TypeOK
  <2> QED
    BY <1>2, <2>1 DEF Unopened
<1>6. off' \in [Inst -> [Store -> Nat]]
  BY <1>2 DEF TypeOK
<1>7. \A g \in Hash : got'[g] = "none" => got[g] = "none"
  BY <1>2, <1>3
<1> QED
  BY <1>2, <1>4, <1>5, <1>6, <1>7, WithinRun, LeftBySet

LEMMA StepShrinks ==
  ASSUME ResumeAssumption, IndInv, RunStep \/ Kill
  PROVE  Shrinks
<1>1. TypeOK
  BY DEF IndInv
<1>2. CASE (\E s \in Store : ListError(s)) \/ Finish \/ Exit \/ Kill
  <2>1. phase # "off" /\ phase' = "off"
    BY <1>2 DEF ListError, Finish, Exit, Kill, Over
  <2> QED
    BY <1>1, <2>1, OverShrinks
<1>3. ASSUME NEW s \in Store, List(s) PROVE Shrinks
  BY <1>1, <1>3, ListShrinks
<1>4. ASSUME NEW i \in Inst, InstStep(i) PROVE Shrinks
  BY <1>4, BeginShrinks, FileShrinks DEF InstStep
<1>5. ASSUME NEW h \in Hash, Fetch(h) \/ FetchFails(h) PROVE Shrinks
  BY <1>1, <1>5, FetchShrinks
<1> QED
  BY <1>2, <1>3, <1>4, <1>5 DEF RunStep

\* A run makes no step that does not take something off what is left of it ...
THEOREM OnlySoManySteps == Spec => [][RunStep \/ Kill => Shrinks]_vars
<1>1. IndInv /\ [Next]_vars => [RunStep \/ Kill => Shrinks]_vars
  BY ResumeAssumption, StepShrinks
<1> QED
  BY <1>1, Invariance, PTL DEF Spec

\* ... which is finite for finitely many chunks and instances.
THEOREM LeftFinite ==
  ASSUME IsFiniteSet(Hash), IsFiniteSet(Inst)
  PROVE  \A k \in 1..7 : IsFiniteSet(Left[k])
<1>1. IsFiniteSet(Store) /\ IsFiniteSet(Inst \X Store)
  BY ResumeAssumption, FS_Product DEF ResumeAssumption
<1>2. PhaseLeft \in SUBSET {"listing", "on"}
  BY DEF PhaseLeft
<1>3. IsFiniteSet({"listing"}) /\ IsFiniteSet({"on"})
  BY FS_Singleton
<1>4. IsFiniteSet({"listing", "on"})
  <2>1. IsFiniteSet({"listing"} \cup {"on"})
    BY <1>3, FS_Union
  <2>2. {"listing"} \cup {"on"} = {"listing", "on"}
    OBVIOUS
  <2> QED
    BY <2>1, <2>2, Zenon
<1> DEFINE C(i) == {i} \X Store \X (1..Size[HashOf[i]])
           F == [i \in Inst |-> C(i)]
           T == {C(i) : i \in Inst}
<1>5. IsFiniteSet(UNION T)
  <2>1. F \in Surjection(Inst, T)
    BY DEF Surjection
  <2>2. IsFiniteSet(T)
    <3> HIDE DEF F, T
    <3> QED
      BY <2>1, FS_Surjection
  <2>3. ASSUME NEW i \in Inst PROVE IsFiniteSet(C(i))
    <3> DEFINE N == 1..Size[HashOf[i]]
    <3>1. 1 \in Int /\ Size[HashOf[i]] \in Int
      BY ResumeAssumption DEF ResumeAssumption
    <3>2. IsFiniteSet(N)
      BY <3>1, FS_Interval
    <3>3. IsFiniteSet({i})
      BY FS_Singleton
    <3>4. IsFiniteSet(({i} \X Store) \X N)
      <4> HIDE DEF N
      <4>1. IsFiniteSet({i} \X Store)
        BY <1>1, <3>3, FS_Product
      <4> QED
        BY <3>2, <4>1, FS_Product
    <3> DEFINE G == [x \in ({i} \X Store) \X N |-> <<x[1][1], x[1][2], x[2]>>]
    <3>5. G \in Surjection(({i} \X Store) \X N, C(i))
      <4>1. G \in [({i} \X Store) \X N -> C(i)]
        OBVIOUS
      <4>2. ASSUME NEW y \in C(i) PROVE \E x \in ({i} \X Store) \X N : G[x] = y
        <5>1. y[1] = i /\ y[2] \in Store /\ y[3] \in N /\ y = <<y[1], y[2], y[3]>>
          OBVIOUS
        <5> DEFINE x == <<<<y[1], y[2]>>, y[3]>>
        <5>2. x \in ({i} \X Store) \X N /\ G[x] = y
          BY <5>1
        <5> QED
          BY <5>2
      <4> QED
        BY <4>1, <4>2 DEF Surjection
    <3> HIDE DEF G, C, N
    <3> QED
      BY <3>4, <3>5, FS_Surjection
  <2>4. \A S \in T : IsFiniteSet(S)
    BY <2>3
  <2> HIDE DEF T
  <2> QED
    BY <2>2, <2>4, FS_UNION
<1>6. BlocksLeft \in SUBSET (UNION T)
  BY DEF BlocksLeft
<1>7. /\ ListLeft \in SUBSET Store /\ BeginLeft \in SUBSET Inst /\ GotLeft \in SUBSET Hash
      /\ OpenLeft \in SUBSET (Inst \X Store) /\ CloseLeft \in SUBSET (Inst \X Store)
  BY DEF ListLeft, BeginLeft, GotLeft, OpenLeft, CloseLeft
<1> HIDE DEF T
<1>8. /\ IsFiniteSet(PhaseLeft) /\ IsFiniteSet(ListLeft) /\ IsFiniteSet(BeginLeft)
      /\ IsFiniteSet(OpenLeft) /\ IsFiniteSet(CloseLeft) /\ IsFiniteSet(GotLeft)
      /\ IsFiniteSet(BlocksLeft)
  BY <1>1, <1>2, <1>4, <1>5, <1>6, <1>7, FS_Subset
<1>9. Left = <<PhaseLeft, ListLeft, BeginLeft, OpenLeft, CloseLeft, BlocksLeft, GotLeft>>
  BY DEF Left
<1>10. \A k \in 1..7 : k = 1 \/ k = 2 \/ k = 3 \/ k = 4 \/ k = 5 \/ k = 6 \/ k = 7
  OBVIOUS
<1> QED
  BY <1>8, <1>9, <1>10
=============================================================================

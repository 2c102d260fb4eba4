--------------------------- MODULE ServicesProofs ---------------------------
(***************************************************************************)
(* Proofs about the parts of Services, for all values of the constants:    *)
(* savegames, FIOS2, the input, the import table, the functions on memory, *)
(* patch_game with the constructors, and the shader variants.  Each part   *)
(* has an inductive invariant; a step of another part leaves its variables *)
(* alone.                                                                  *)
(***************************************************************************)
EXTENDS Services, SequenceTheorems, WellFoundedInduction, TLAPS

(* A set of numbers that is not empty has a least.                         *)
LEMMA LeastNumber ==
  ASSUME NEW T, T \subseteq Nat, T # {}
  PROVE  \E k \in T : \A l \in T : k <= l
<1> DEFINE less == {p \in Nat \X Nat : p[1] < p[2]}
<1>1. IsWellFoundedOn(less, Nat)
  <2>1. less = OpToRel(<, Nat)
    BY Zenon DEF OpToRel
  <2> QED
    BY <2>1, NatLessThanWellFounded
<1>2. PICK k \in T : \A l \in T : ~(<<l, k>> \in less)
  <2> HIDE DEF less
  <2> QED
    BY <1>1, WFMin, Zenon
<1>3. \A l \in T : ~(l < k)
  BY <1>2
<1> QED
  BY <1>3

-----------------------------------------------------------------------------
(* Savegames.                                                              *)

AtRest == pc \notin {"opened", "written"} => data = None /\ taken = 0

Writing ==
  pc \in {"opened", "written"} =>
    /\ data \in Versions
    /\ file.of = data
    /\ file.blocks <= taken
    /\ taken <= Blocks[data]
    /\ data \in later

Answer ==
  pc = "written" /\ ret = 1 => taken = Blocks[data]

(* A file that does not exist has nothing in it.                           *)
NothingInNothing == file.of = None => file = Absent

(* What a read has found so far, and what it has in its hands.             *)
Reading ==
  /\ pc \in {"found", "sized", "buffered"} => ~failed
  /\ pc \in {"sized", "buffered"} => sz = file.blocks /\ sz > 0 /\ ret = 0
  /\ held => pc = "buffered"
  /\ open => pc \notin {"idle", "off"}

StorageInv ==
  /\ TypeOK /\ AtRest /\ Writing /\ Answer /\ NothingInNothing /\ AckedSurvives
  /\ Reading /\ ReadsAllOrNothing

(* What a reader sees of a file is a version, damage or nothing.           *)
LEMMA SeenIs ==
  ASSUME NEW f \in [of : Versions \union {None}, blocks : Nat]
  PROVE  /\ Seen(f) \in Versions \union {None, Damaged}
         /\ f.of \in Versions => Seen(f) \in {f.of, Damaged} /\ Seen(f) # None
         /\ f.of = None => Seen(f) = None
BY StorageAssumption DEF Seen

(* The savegame is there or not, and nothing is under way.                 *)
LEMMA StorageInit == Init => StorageInv
<1> SUFFICES ASSUME Init PROVE StorageInv
  OBVIOUS
<1> USE StorageAssumption DEF Init, Absent, Whole, Contents
<1>1. TypeOK
  <2>1. Absent \in [of : Versions \union {None}, blocks : Nat]
    OBVIOUS
  <2>2. \A v \in Versions : Whole(v) \in [of : Versions \union {None}, blocks : Nat]
    OBVIOUS
  <2>3. /\ file \in [of : Versions \union {None}, blocks : Nat]
        /\ loaded \in [of : Versions \union {None}, blocks : Nat]
    BY <2>1, <2>2
  <2>4. /\ pc = "idle" /\ data = None /\ taken = 0 /\ sz = 0 /\ ret = 0
        /\ open = FALSE /\ held = FALSE /\ failed = FALSE
        /\ before = None /\ acked = None /\ later = {} /\ lost = FALSE
    OBVIOUS
  <2> QED
    BY <2>3, <2>4 DEF TypeOK
<1>2. AtRest /\ Writing /\ Answer /\ NothingInNothing /\ AckedSurvives
  BY DEF AtRest, Writing, Answer, NothingInNothing, AckedSurvives
<1>3. Reading /\ ReadsAllOrNothing
  BY DEF Reading, ReadsAllOrNothing
<1> QED
  BY <1>1, <1>2, <1>3 DEF StorageInv

(* Every step of the game, of the host and of the power keeps StorageInv.  *)
LEMMA StorageStep == StorageInv /\ [Next]_vars => StorageInv'
<1> SUFFICES ASSUME StorageInv, [Next]_vars PROVE StorageInv'
  OBVIOUS
<1> USE StorageAssumption DEF StorageInv, TypeOK, AtRest, Writing, Answer,
      NothingInNothing, AckedSurvives, Reading, ReadsAllOrNothing, Contents, Whole,
      Absent, writing, reading, history
<1>1. ASSUME NEW v \in Versions, OpenToWrite(v) PROVE StorageInv'
  <2>1. Seen(file) \in Versions \union {None, Damaged}
    BY SeenIs
  <2> QED
    BY <1>1, <2>1 DEF OpenToWrite
<1>2. CASE CannotOpen \/ CannotFind
  BY <1>2 DEF CannotOpen, CannotFind
<1>3. CASE WriteBlocks
  BY <1>3 DEF WriteBlocks
<1>4. CASE Close
  <2>1. PICK n \in file.blocks .. taken :
          file' = Contents(data, n) /\ Returned(n < taken)
    BY <1>4 DEF Close
  <2>2. n \in Nat /\ n <= taken /\ data \in Versions /\ taken <= Blocks[data]
    BY <1>4, <2>1 DEF Close
  <2>3. /\ file' \in [of : Versions \union {None}, blocks : Nat]
        /\ file'.of = data /\ file'.blocks = n
    BY <2>1, <2>2
  <2>4. /\ acked' \in Versions \union {None} /\ later' \subseteq Versions
        /\ lost' \in BOOLEAN
    <3>1. (n < taken) \in BOOLEAN
      OBVIOUS
    <3>2. CASE ret = 1
      BY <2>1, <2>2, <3>1, <3>2 DEF Returned
    <3>3. CASE ret # 1
      BY <2>1, <3>3 DEF Returned
    <3> QED
      BY <3>2, <3>3
  <2>5. /\ pc = "written" /\ pc' = "idle" /\ data' = None /\ taken' = 0
        /\ open' = FALSE
        /\ UNCHANGED <<sz, held, failed, ret, loaded, before>>
    BY <1>4 DEF Close
  <2>6. /\ TypeOK' /\ AtRest' /\ Writing' /\ Answer' /\ NothingInNothing'
        /\ Reading' /\ ReadsAllOrNothing'
    BY <2>2, <2>3, <2>4, <2>5
  <2>7. AckedSurvives'
    <3>1. CASE ret = 1 /\ n = taken
      BY <2>1, <2>2, <2>5, <3>1 DEF Returned
    <3>2. CASE ret = 1 /\ n < taken
      <4>1. acked' = data /\ lost' = (n < taken)
        BY <2>1, <3>2 DEF Returned
      <4>2. lost'
        BY <3>2, <4>1, Zenon
      <4> QED
        BY <2>3, <4>1, <4>2
    <3>3. CASE ret # 1
      BY <2>1, <2>3, <2>5, <3>3 DEF Returned
    <3> QED
      BY <2>2, <3>1, <3>2, <3>3
  <2> QED
    BY <2>6, <2>7
<1>5. CASE OpenToRead
  BY <1>5 DEF OpenToRead
<1>6. CASE Measure
  <2>1. /\ pc = "found" /\ ~failed /\ ret' = 0
        /\ UNCHANGED <<file, data, taken, open, held, loaded, before, acked, later, lost>>
    BY <1>6 DEF Measure
  <2>2. file.blocks \in Nat
    OBVIOUS
  <2>3. CASE sz' = file.blocks /\ failed' = failed /\ file.blocks > 0
    <3>1. pc' = "sized"
      BY <1>6, <2>3 DEF Measure
    <3> QED
      BY <2>1, <2>2, <2>3, <3>1
  <2>4. CASE sz' = file.blocks /\ failed' = failed /\ ~(file.blocks > 0)
    <3>1. pc' = "finished"
      BY <1>6, <2>4 DEF Measure
    <3> QED
      BY <2>1, <2>2, <2>4, <3>1
  <2>5. CASE sz' = -1 /\ failed' = TRUE
    <3>1. pc' = "finished"
      BY <1>6, <2>5 DEF Measure
    <3> QED
      BY <2>1, <2>2, <2>5, <3>1
  <2> QED
    BY <1>6, <2>3, <2>4, <2>5 DEF Measure
<1>7. CASE Allocate
  <2>1. /\ pc = "sized" /\ ~failed /\ sz = file.blocks /\ sz > 0 /\ ret = 0
        /\ UNCHANGED <<file, data, taken, open, sz, ret, loaded, before, acked, later, lost>>
    BY <1>7 DEF Allocate
  <2>2. CASE held' = TRUE /\ pc' = "buffered" /\ failed' = failed
    BY <2>1, <2>2
  <2>3. CASE failed' = TRUE /\ pc' = "finished" /\ held' = held
    BY <2>1, <2>3
  <2> QED
    BY <1>7, <2>2, <2>3 DEF Allocate
<1>8. CASE ReadBlocks
  <2>1. PICK n \in 0 .. sz :
          /\ failed' = (n < sz)
          /\ IF n = sz THEN ret' = 1 /\ loaded' = Contents(file.of, n)
            ELSE UNCHANGED <<ret, loaded>>
    BY <1>8 DEF ReadBlocks
  <2>2. /\ pc = "buffered" /\ pc' = "finished" /\ held' = FALSE
        /\ UNCHANGED <<file, data, taken, open, sz, before, acked, later, lost>>
    BY <1>8 DEF ReadBlocks
  <2>3. /\ sz = file.blocks /\ sz > 0 /\ sz \in Nat /\ ret = 0
        /\ file \in [of : Versions \union {None}, blocks : Nat]
    BY <2>2
  <2>4. failed' \in BOOLEAN /\ (failed' <=> n < sz)
    <3>1. failed' = (n < sz)
      BY <2>1, Zenon
    <3>2. (n < sz) \in BOOLEAN
      OBVIOUS
    <3>3. failed' \in BOOLEAN
      BY <3>1, <3>2, Zenon
    <3>4. failed' <=> n < sz
      BY <3>1, Zenon
    <3> QED
      BY <3>3, <3>4
  <2>5. CASE n = sz
    <3>1. ~failed'
      BY <2>3, <2>4, <2>5
    <3>2. ret' = 1 /\ loaded' = Contents(file.of, file.blocks)
      BY <2>1, <2>3, <2>5
    <3>3. loaded' = file
      BY <2>3, <3>2
    <3>4. TypeOK' /\ AtRest' /\ Writing' /\ Answer' /\ NothingInNothing' /\ AckedSurvives'
      <4>1. failed' \in BOOLEAN /\ held' \in BOOLEAN /\ open' \in BOOLEAN
        BY <2>2, <2>4, Zenon
      <4>2. loaded' \in [of : Versions \union {None}, blocks : Nat] /\ ret' \in {0, 1}
        BY <2>3, <3>2, <3>3
      <4> QED
        BY <2>2, <2>3, <4>1, <4>2
    <3>5. Reading' /\ ReadsAllOrNothing'
      BY <2>2, <2>3, <3>1, <3>2, <3>3
    <3> QED
      BY <3>4, <3>5
  <2>6. CASE n # sz
    <3>1. failed'
      BY <2>1, <2>3, <2>4, <2>6
    <3>2. UNCHANGED <<ret, loaded>>
      BY <2>1, <2>6
    <3>3. TypeOK' /\ AtRest' /\ Writing' /\ Answer' /\ NothingInNothing' /\ AckedSurvives'
      <4>1. failed' \in BOOLEAN /\ held' \in BOOLEAN /\ open' \in BOOLEAN
        BY <2>2, <2>4, Zenon
      <4> QED
        BY <2>2, <2>3, <3>2, <4>1
    <3>4. Reading' /\ ReadsAllOrNothing'
      BY <2>2, <2>3, <3>1, <3>2
    <3> QED
      BY <3>3, <3>4
  <2> QED
    BY <2>5, <2>6
<1>9. CASE CloseRead
  BY <1>9 DEF CloseRead
<1>10. CASE PowerLoss
  BY <1>10 DEF PowerLoss
<1>11. CASE Restart
  BY <1>11 DEF Restart
<1>12. CASE UNCHANGED vars
  BY <1>12 DEF vars
<1> QED
  BY <1>1, <1>2, <1>3, <1>4, <1>5, <1>6, <1>7, <1>8, <1>9, <1>10, <1>11, <1>12
     DEF Next

(* The inductive invariant holds in every behaviour.                       *)
LEMMA StorageInvHolds == Spec => []StorageInv
BY StorageInit, StorageStep, PTL DEF Spec

(* Types are kept by every step of the savegame functions.                 *)
THEOREM StorageTypeCorrect == Spec => []TypeOK
<1>1. StorageInv => TypeOK
  BY DEF StorageInv
<1> QED
  BY <1>1, StorageInvHolds, PTL

(* Across any number of power losses and failures: what was acknowledged   *)
(* last is on the card, or something of a write that was begun since, or   *)
(* what its own fclose has left of it (hooks/game.c:181-192).              *)
THEOREM AckedIsKept == Spec => []AckedSurvives
<1>1. StorageInv => AckedSurvives
  BY DEF StorageInv
<1> QED
  BY <1>1, StorageInvHolds, PTL

(* Whichever calls of the host fail: a read gives the game all blocks of   *)
(* the file and returns 1, or returns 0 because one of them failed or the  *)
(* file is empty, and leaves nothing behind (hooks/game.c:152-179).        *)
THEOREM ReadsWhatIsThere == Spec => []ReadsAllOrNothing
<1>1. StorageInv => ReadsAllOrNothing
  BY DEF StorageInv
<1> QED
  BY <1>1, StorageInvHolds, PTL

-----------------------------------------------------------------------------
(* The mapping of ImplementsSaveFile: what a reader would see, or while a  *)
(* write is under way what there was before it.                            *)
Saved == IF data = None THEN Seen(file) ELSE before
Step == Game!FileNext \/ UNCHANGED <<Saved, data, acked, Seen(loaded)>>

(* Nothing was written or loaded yet, and the file is whole or absent.     *)
LEMMA StorageRefinesInit == Init => Game!FileInit
<1> SUFFICES ASSUME Init PROVE Game!FileInit
  OBVIOUS
<1>1. data = None /\ acked = None /\ loaded = Absent
  BY DEF Init
<1>2. Seen(Absent) = None
  BY DEF Seen, Absent, Contents
<1>3. Seen(file) \in Versions \union {None}
  <2>1. CASE file = Absent
    BY <1>2, <2>1
  <2>2. ASSUME NEW v \in Versions, file = Whole(v) PROVE Seen(file) = v
    BY <2>2, StorageAssumption DEF Seen, Whole, Contents
  <2> QED
    BY <2>1, <2>2 DEF Init
<1> QED
  BY <1>1, <1>2, <1>3 DEF Game!FileInit

(* What fclose does when it does not fail.                                 *)
ClosesWhole == Close => file' = Contents(data, taken) /\ Returned(FALSE)

(* While fclose does not fail, a write shows when it returns: with success *)
(* if and only if all of it is there.                                      *)
LEMMA StorageRefinesStep ==
  ASSUME StorageInv, [Next]_vars, ClosesWhole
  PROVE  Step
<1> USE StorageAssumption DEF Step, Saved, writing, reading, history
<1>1. ASSUME NEW v \in Versions, OpenToWrite(v) PROVE Step
  <2>1. data = None /\ data' = v /\ before' = Seen(file) /\ v # None
    BY <1>1 DEF OpenToWrite, StorageInv, AtRest
  <2>2. UNCHANGED <<acked, loaded>>
    BY <1>1 DEF OpenToWrite
  <2>3. Saved' = Saved /\ Seen(loaded)' = Seen(loaded)
    BY <2>1, <2>2 DEF Seen
  <2> QED
    BY <2>1, <2>2, <2>3 DEF Game!FileNext, Game!Begin
<1>2. CASE UNCHANGED <<file, data, acked, before, loaded>>
  BY <1>2 DEF Seen
<1>3. CASE WriteBlocks
  <2>1. data # None /\ data' = data /\ UNCHANGED <<before, acked, loaded>>
    BY <1>3 DEF WriteBlocks, StorageInv, Writing
  <2> QED
    BY <2>1 DEF Seen
<1>4. CASE Close
  <2>1. file' = Contents(data, taken) /\ Returned(FALSE)
    BY <1>4 DEF ClosesWhole
  <2>2. /\ data \in Versions /\ data # None /\ data' = None
        /\ taken \in Nat
        /\ UNCHANGED loaded
    BY <1>4 DEF Close, StorageInv, Writing, TypeOK
  <2>3. file' \in [of : Versions \union {None}, blocks : Nat] /\ file'.of = data
    BY <2>1, <2>2 DEF Contents
  <2>4. Saved' = Seen(file)' /\ Seen(loaded)' = Seen(loaded)
    BY <2>2 DEF Seen
  <2>5. CASE ret = 1
    <3>1. file' = Whole(data) /\ acked' = data
      BY <1>4, <2>1, <2>2, <2>5 DEF Close, StorageInv, Answer, Whole, Returned
    <3>2. Seen(file)' = data
      BY <3>1, <2>2, <2>3 DEF Seen
    <3> QED
      BY <2>2, <2>4, <3>1, <3>2 DEF Game!FileNext, Game!Succeed
  <2>6. CASE ret # 1
    <3>1. acked' = acked
      BY <2>1, <2>6 DEF Returned
    <3>2. Seen(file)' \in {data, Damaged}
      BY <2>2, <2>3 DEF Seen
    <3> QED
      BY <2>2, <2>4, <3>1, <3>2 DEF Game!FileNext, Game!Fail
  <2> QED
    BY <2>5, <2>6
<1>5. CASE ReadBlocks
  <2>1. /\ data = None /\ UNCHANGED <<file, data, acked>>
        /\ loaded' = loaded \/ loaded' = Contents(file.of, sz)
    BY <1>5 DEF ReadBlocks, StorageInv, AtRest
  <2>2. Contents(file.of, sz) = file /\ file.blocks > 0
    BY <1>5 DEF ReadBlocks, StorageInv, Reading, TypeOK, Contents
  <2>3. Seen(file) # None
    BY <2>2, SeenIs DEF StorageInv, NothingInNothing, Absent, Contents, TypeOK
  <2>4. CASE loaded' = loaded
    BY <2>1, <2>4 DEF Seen
  <2>5. CASE loaded' = file
    <3>1. Saved' = Saved /\ Seen(loaded)' = Saved /\ Saved # None
      BY <2>1, <2>3, <2>5 DEF Seen
    <3> QED
      BY <2>1, <3>1 DEF Game!FileNext, Game!Load
  <2> QED
    BY <2>1, <2>2, <2>4, <2>5
<1>6. CASE PowerLoss
  <2>1. data' = None /\ loaded' = Absent /\ UNCHANGED <<file, acked, before>>
    BY <1>6 DEF PowerLoss
  <2>2. Seen(loaded)' = None
    BY <2>1 DEF Seen, Absent, Contents
  <2>3. Saved' = Seen(file)
    BY <2>1 DEF Seen
  <2>4. data # None => Seen(file) \in {data, Damaged}
    BY <1>6, SeenIs DEF PowerLoss, StorageInv, AtRest, Writing, TypeOK
  <2> QED
    BY <2>1, <2>2, <2>3, <2>4 DEF Game!FileNext, Game!PowerFails
<1>7. CASE \/ CannotOpen \/ OpenToRead \/ CannotFind \/ Measure \/ Allocate
           \/ CloseRead \/ Restart \/ UNCHANGED vars
  BY <1>2, <1>7 DEF CannotOpen, OpenToRead, CannotFind, Measure, Allocate, CloseRead,
                    Restart, vars
<1> QED
  BY <1>1, <1>3, <1>4, <1>5, <1>6, <1>7 DEF Next

(* With an fclose that writes everything, the two functions are a savegame *)
(* as SaveFile describes it, whatever the versions and their lengths.      *)
THEOREM StorageIsASaveFile ==
  ASSUME ~CloseFails
  PROVE  Spec => ImplementsSaveFile
<1>1. ASSUME StorageInv, [Next]_vars PROVE [Game!FileNext]_(Game!fileVars)
  <2>1. ASSUME Close PROVE file' = Contents(data, taken) /\ Returned(FALSE)
    <3>1. PICK n \in file.blocks .. taken :
            /\ n < taken => CloseFails
            /\ file' = Contents(data, n) /\ Returned(n < taken)
      BY <2>1 DEF Close
    <3>2. n = taken /\ (n < taken) = FALSE
      BY <1>1, <3>1 DEF StorageInv, TypeOK
    <3> QED
      BY <3>1, <3>2
  <2> QED
    BY <1>1, <2>1, StorageRefinesStep DEF ClosesWhole, Step, Saved, Game!fileVars
<1> QED
  BY <1>1, StorageInvHolds, StorageRefinesInit, PTL
     DEF Spec, ImplementsSaveFile, Game!FileSpec

(* Where fclose never fails, calls do what they do otherwise, and fclose   *)
(* writes everything.                                                      *)
LEMMA SoundActions == StorageInv /\ [Sound!Next]_vars => [Next]_vars /\ ClosesWhole
<1> SUFFICES ASSUME StorageInv, [Sound!Next]_vars PROVE [Next]_vars /\ ClosesWhole
  OBVIOUS
<1> USE DEF Sound!Contents, Contents, Sound!Whole, Whole, Sound!Absent, Absent,
      Sound!Seen, Seen, Sound!Returned, Returned, Sound!writing, writing, Sound!reading, reading,
      Sound!history, history
<1>1. ASSUME Sound!Close PROVE Close /\ ClosesWhole
  <2>1. PICK n \in file.blocks .. taken :
          /\ n < taken => FALSE
          /\ file' = Contents(data, n) /\ Returned(n < taken)
    BY <1>1 DEF Sound!Close
  <2>2. n = taken /\ (n < taken) = FALSE
    BY <2>1 DEF StorageInv, TypeOK
  <2>3. file' = Contents(data, taken) /\ Returned(FALSE)
    BY <2>1, <2>2
  <2>4. /\ pc = "written" /\ pc' = "idle" /\ data' = None /\ taken' = 0
        /\ open' = FALSE
        /\ UNCHANGED <<sz, held, failed, ret, loaded, before>>
    BY <1>1 DEF Sound!Close
  <2>5. Close
    BY <2>1, <2>4 DEF Close
  <2> QED
    BY <2>3, <2>5 DEF ClosesWhole
<1>2. ASSUME \/ \E v \in Versions : Sound!OpenToWrite(v)
             \/ Sound!CannotOpen \/ Sound!WriteBlocks
             \/ Sound!OpenToRead \/ Sound!CannotFind \/ Sound!Measure
             \/ Sound!Allocate \/ Sound!ReadBlocks \/ Sound!CloseRead
             \/ Sound!PowerLoss \/ Sound!Restart
             \/ UNCHANGED vars
      PROVE  [Next]_vars /\ ~Close
  <2>1. ASSUME NEW v \in Versions, Sound!OpenToWrite(v) PROVE Next /\ ~Close
    <3>1. OpenToWrite(v)
      BY <2>1 DEF Sound!OpenToWrite, OpenToWrite
    <3>2. ~Close
      BY <3>1 DEF OpenToWrite, Close
    <3> QED
      BY <3>1, <3>2 DEF Next
  <2>2. ASSUME Sound!CannotOpen PROVE Next /\ ~Close
    BY <2>2 DEF Sound!CannotOpen, CannotOpen, Next, Close
  <2>3. ASSUME Sound!WriteBlocks PROVE Next /\ ~Close
    <3>1. WriteBlocks
      BY <2>3 DEF Sound!WriteBlocks, WriteBlocks
    <3>2. ~Close
      BY <3>1 DEF WriteBlocks, Close
    <3> QED
      BY <3>1, <3>2 DEF Next
  <2>4. ASSUME Sound!OpenToRead PROVE Next /\ ~Close
    BY <2>4 DEF Sound!OpenToRead, OpenToRead, Next, Close
  <2>5. ASSUME Sound!CannotFind PROVE Next /\ ~Close
    BY <2>5 DEF Sound!CannotFind, CannotFind, Next, Close
  <2>6. ASSUME Sound!Measure PROVE Next /\ ~Close
    BY <2>6 DEF Sound!Measure, Measure, Next, Close
  <2>7. ASSUME Sound!Allocate PROVE Next /\ ~Close
    BY <2>7 DEF Sound!Allocate, Allocate, Next, Close
  <2>8. ASSUME Sound!CloseRead PROVE Next /\ ~Close
    BY <2>8 DEF Sound!CloseRead, CloseRead, Next, Close
  <2>9. ASSUME Sound!PowerLoss PROVE Next /\ ~Close
    BY <2>9 DEF Sound!PowerLoss, PowerLoss, Next, Close
  <2>10. ASSUME Sound!Restart PROVE Next /\ ~Close
    BY <2>10 DEF Sound!Restart, Restart, Next, Close
  <2>11. ASSUME Sound!ReadBlocks PROVE Next /\ ~Close
    <3>1. ReadBlocks
      BY <2>11 DEF Sound!ReadBlocks, ReadBlocks
    <3>2. ~Close
      BY <3>1 DEF ReadBlocks, Close
    <3> QED
      BY <3>1, <3>2 DEF Next
  <2>12. ASSUME UNCHANGED vars PROVE ~Close
    BY <2>12 DEF vars, writing, Close
  <2> QED
    BY <1>2, <2>1, <2>2, <2>3, <2>4, <2>5, <2>6, <2>7, <2>8, <2>9, <2>10, <2>11, <2>12
<1> QED
  BY <1>1, <1>2 DEF Sound!Next, Next, ClosesWhole

(* While fclose does not fail, a savegame is what SaveFile says, whatever  *)
(* the versions, their lengths, the failures of the other calls and the    *)
(* losses of power.                                                        *)
THEOREM SoundSavegames == ServicesSpec => SoundImplementsSaveFile
<1> DEFINE Mapped == [Game!FileNext]_(Game!fileVars)
<1>1. ServicesInit => StorageInv /\ Game!FileInit
  BY StorageInit, StorageRefinesInit DEF ServicesInit
<1>2. [ServicesNext]_allVars =>
        \/ part = "storage" /\ [Next]_vars
        \/ part = "sound" /\ [Sound!Next]_vars
        \/ UNCHANGED vars
  BY DEF ServicesNext, allVars, vars
<1>3. ASSUME StorageInv, [ServicesNext]_allVars PROVE StorageInv'
  BY <1>2, <1>3, SoundActions, StorageStep
<1>4. ASSUME StorageInv, [ServicesNext]_allVars, part = "sound"
      PROVE  [Game!FileNext]_(Game!fileVars)
  <2>1. [Next]_vars /\ ClosesWhole
    <3>1. [Sound!Next]_vars
      BY <1>2, <1>4
    <3> QED
      BY <1>4, <3>1, SoundActions
  <2> QED
    BY <1>4, <2>1, StorageRefinesStep DEF Step, Saved, Game!fileVars
<1>5. ASSUME StorageInv, [ServicesNext]_allVars
      PROVE  [part = "sound" => Game!FileNext]_(Game!fileVars)
  BY <1>4, <1>5
<1> QED
  BY <1>1, <1>3, <1>5, PTL DEF ServicesSpec, SoundImplementsSaveFile

-----------------------------------------------------------------------------
(* The cache of FIOS2.                                                     *)

(* A thread that has called OS_ThreadExit or the like, and so exits.       *)
Exiting(t) == exit[t] # "playing"

(* Before the game runs nobody exits and nothing was freed.                *)
BeforeTheGame ==
  main \in {"start", "alloc", "filter", "fatal"} =>
    /\ \A t \in Exiters : ~Exiting(t)
    /\ buffer # "freed" /\ freed = 0

(* How far the set-up of FIOS2 is: initialised, and then with its buffer.  *)
SetUp ==
  /\ main \in {"alloc", "filter"} => fios = "up"
  /\ main = "filter" => buffer = "held" /\ room = Fio!WorkBufferSize

(* Whoever is about to free the buffer has terminated FIOS2.               *)
Frees ==
  \A t \in Exiters : exit[t] = "free" => fios = "terminated"

(* While exits do not overlap one thread at most is in one, and the buffer *)
(* was freed once at most, by it.                                          *)
OneExit ==
  ~overlap =>
    /\ \A t, u \in Exiters : Exiting(t) /\ Exiting(u) => t = u
    /\ freed # 0 => freed = 1 /\ \E t \in Exiters : exit[t] = "end"

(* The inductive invariant of FIOS2.                                       *)
FiosInv ==
  /\ Fio!TypeOK /\ Fio!CacheIsBacked /\ Fio!NoUseAfterFree
  /\ BeforeTheGame /\ SetUp /\ Frees /\ OneExit

(* The size of the buffer is a word, and the product unless that           *)
(* overflows.                                                              *)
LEMMA WorkBuffer ==
  ASSUME Fio!TypeOK
  PROVE  /\ Fio!WorkBufferSize \in 0 .. Word - 1
         /\ num * size \in 0 .. Word - 1 => Fio!WorkBufferSize = num * size
<1> DEFINE p == num * size
<1>1. p \in Int /\ Word \in Nat \ {0}
  BY FiosConstants DEF Fio!FiosAssumption, Fio!TypeOK
<1> HIDE DEF p
<1>2. p % Word \in 0 .. Word - 1 /\ (p \in 0 .. Word - 1 => p % Word = p)
  BY <1>1
<1> QED
  BY <1>2 DEF p, Fio!WorkBufferSize

(* Each of the four storages is long enough, with its bit map.             *)
LEMMA StoragesAreLong == \A s \in Fio!Storages : s.length >= s.needs
<1>1. \A n \in Int : 8 * (n \div 8 + 1) >= n
  OBVIOUS
<1>2. \A s \in Fio!Storages : \E n \in Int : s.needs = n /\ s.length = 8 * (n \div 8 + 1)
  BY DEF Fio!Storages, Fio!ArraySize, Fio!OpStorage, Fio!ChunkStorage, Fio!FhStorage,
         Fio!DhStorage, Fio!StorageSize, Fio!AlignUp
<1> QED
  BY <1>1, <1>2

(* The invariant holds at first.                                           *)
LEMMA FiosInit == Fio!Init => FiosInv
<1> SUFFICES ASSUME Fio!Init PROVE FiosInv
  OBVIOUS
<1>1. /\ num \in Numbers /\ size \in Numbers /\ fios = "off" /\ room = -1
      /\ buffer = "null" /\ cacheFilter = -1 /\ main = "start" /\ freed = 0
      /\ overlap = FALSE /\ exit = [t \in Exiters |-> "playing"]
  BY DEF Fio!Init
<1>2. -1 \in -1 .. Word - 1
  BY FiosConstants DEF Fio!FiosAssumption
<1>3. Fio!TypeOK
  BY <1>1, <1>2 DEF Fio!TypeOK
<1>4. Fio!CacheIsBacked /\ Fio!NoUseAfterFree
  BY <1>1 DEF Fio!CacheIsBacked, Fio!NoUseAfterFree
<1>5. BeforeTheGame /\ SetUp /\ Frees /\ OneExit
  BY <1>1 DEF BeforeTheGame, SetUp, Frees, OneExit, Exiting
<1> QED
  BY <1>3, <1>4, <1>5 DEF FiosInv

(* Every step of the set-up and of an exit keeps the invariant.            *)
LEMMA FiosStep == FiosInv /\ [Fio!Next]_fiosVars => FiosInv'
<1> SUFFICES ASSUME FiosInv, [Fio!Next]_fiosVars PROVE FiosInv'
  OBVIOUS
<1>0. /\ Fio!WorkBufferSize \in 0 .. Word - 1
      /\ num * size \in 0 .. Word - 1 => Fio!WorkBufferSize = num * size
  BY WorkBuffer DEF FiosInv
<1> DEFINE work == Fio!WorkBufferSize
           asks == num * size
<1>a. [Fio!Next]_fiosVars => num' = num /\ size' = size
  BY DEF Fio!Next, Fio!Initialize, Fio!Allocate, Fio!AddFilter, Fio!CallExit,
         Fio!Terminate, Fio!Free, Fio!ExitProcess, fiosVars
<1>b. work' = work /\ asks' = asks
  BY <1>a DEF Fio!WorkBufferSize
<1> USE FiosConstants
    DEF Fio!FiosAssumption, FiosInv, Fio!TypeOK, Fio!CacheIsBacked, Fio!NoUseAfterFree,
        BeforeTheGame, SetUp, Frees, OneExit, Exiting, Fio!Goto
<1>1. CASE UNCHANGED fiosVars
  BY <1>1, <1>b DEF fiosVars
<1>2. CASE Fio!Initialize
  BY <1>2, <1>b DEF Fio!Initialize
<1>3. CASE Fio!Allocate
  BY <1>3, <1>0, <1>b DEF Fio!Allocate
<1>4. CASE Fio!AddFilter
  BY <1>4, <1>0, <1>b DEF Fio!AddFilter
<1>5. ASSUME NEW t \in Exiters, Fio!CallExit(t) PROVE FiosInv'
  BY <1>5, <1>b DEF Fio!CallExit
<1>6. ASSUME NEW t \in Exiters, Fio!Terminate(t) PROVE FiosInv'
  BY <1>6, <1>b DEF Fio!Terminate
<1>7. ASSUME NEW t \in Exiters, Fio!Free(t) PROVE FiosInv'
  BY <1>7, <1>b DEF Fio!Free
<1>8. ASSUME NEW t \in Exiters, Fio!ExitProcess(t) PROVE FiosInv'
  BY <1>8, <1>b DEF Fio!ExitProcess
<1> QED
  BY <1>1, <1>2, <1>3, <1>4, <1>5, <1>6, <1>7, <1>8 DEF Fio!Next

(* For any block counts and sizes, any word and any threads that exit: the *)
(* cache is as large as FIOS2 is told, is freed once unless exits overlap, *)
(* and is not used after (fios.c and hooks/game.c:90).                     *)
THEOREM CacheSound == ServicesSpec => []CacheIsSound
<1>1. ServicesInit => FiosInv
  BY FiosInit DEF ServicesInit
<1>2. [ServicesNext]_allVars => [Fio!Next]_fiosVars
  BY DEF ServicesNext, allVars, fiosVars
<1>3. FiosInv => CacheIsSound
  BY StoragesAreLong DEF FiosInv, OneExit, CacheIsSound, Fio!FreedOnce, Fio!StoragesSuffice
<1> QED
  BY <1>1, <1>2, <1>3, FiosStep, PTL DEF ServicesSpec

-----------------------------------------------------------------------------
(* The gamepad, the touch screen and the crouch toggle.                    *)

(* The statics are copies: pad of the port that was read last, touch of    *)
(* the screen, prev of the control.                                        *)
CopiesAgree ==
  /\ pad = snapshot[of]
  /\ snapshot \in [Inp!Ports \union {Inp!NoPort} -> PadStates \union {Inp!Zeroed}]
  /\ touch = touched
  /\ prev = polled

(* The inductive invariant of the input.                                   *)
InputInv == Inp!TypeOK /\ CopiesAgree

(* An axis is a number of 128ths.                                          *)
LEMMA AxisRange ==
  ASSUME NEW s \in PadStates \union {Inp!Zeroed}, NEW axis \in 0 .. 6
  PROVE  Inp!AxisOf(s, axis) \in -128 .. 128
<1>1. s.sticks \in [0 .. 3 -> 0 .. 255]
  BY InputConstants DEF Inp!InputAssumption, Inp!Zeroed
<1>2. CASE axis \in 0 .. 3
  <2>1. s.sticks[axis] \in 0 .. 255
    BY <1>1, <1>2
  <2>2. Inp!AxisOf(s, axis) = Inp!StickAxis(s.sticks[axis])
    BY <1>2 DEF Inp!AxisOf
  <2> QED
    BY <2>1, <2>2 DEF Inp!StickAxis
<1>3. CASE axis \in 4 .. 6
  <2>1. Inp!AxisOf(s, axis) \in {Inp!TriggerAxis(s.buttons, "l1"),
                                 Inp!TriggerAxis(s.buttons, "r1"), 0}
    BY <1>3 DEF Inp!AxisOf
  <2> QED
    BY <2>1 DEF Inp!TriggerAxis
<1> QED
  BY <1>2, <1>3

(* Buttons and touches make bits of the twelve.                            *)
LEMMA BitsAre ==
  /\ \A buttons : Inp!ButtonBits(buttons) \subseteq {Inp!Bit[b] : b \in DOMAIN Inp!Bit}
  /\ \A ts : Inp!TouchBits(ts) \subseteq {64, 128}
  /\ {64, 128} \subseteq {Inp!Bit[b] : b \in DOMAIN Inp!Bit}
  /\ \A buttons : Inp!ButtonBits(buttons) \intersect {64, 128} # {} =>
                    buttons \intersect {"l2", "r2"} # {}
<1>1. /\ {"l2", "r2"} \subseteq DOMAIN Inp!Bit
      /\ Inp!Bit["l2"] = 64 /\ Inp!Bit["r2"] = 128
  BY DEF Inp!Bit
<1>2. \A b \in DOMAIN Inp!Bit : Inp!Bit[b] \in {64, 128} => b \in {"l2", "r2"}
  BY DEF Inp!Bit
<1>3. \A buttons : Inp!ButtonBits(buttons) \subseteq {Inp!Bit[b] : b \in DOMAIN Inp!Bit}
  BY DEF Inp!ButtonBits
<1>4. \A ts : Inp!TouchBits(ts) \subseteq {64, 128}
  BY DEF Inp!TouchBits
<1>5. {64, 128} \subseteq {Inp!Bit[b] : b \in DOMAIN Inp!Bit}
  BY <1>1
<1>6. \A buttons : Inp!ButtonBits(buttons) \intersect {64, 128} # {} =>
                     buttons \intersect {"l2", "r2"} # {}
  BY <1>2 DEF Inp!ButtonBits
<1> QED
  BY <1>3, <1>4, <1>5, <1>6

(* A bit of the touch screen is a finger in the lower half and outside the *)
(* margins; the code measures the margins from 0 and not from minAaX, so   *)
(* that a panel must start at 0.                                           *)
LEMMA FingersCounted ==
  ASSUME NEW ts \in Touches \union {{}}, Panel.minX = 0, Inp!TouchBits(ts) # {}
  PROVE  \E t \in ts : /\ Margin <= t.x /\ t.x < Panel.maxX - Margin
                       /\ t.y >= (Panel.minY + Panel.maxY) \div 2
<1>1. /\ Panel.minX \in Int /\ Panel.maxX \in Int /\ Panel.minY \in Int /\ Panel.maxY \in Int
      /\ Margin \in Int
      /\ \A t \in ts : t.x \in Int /\ t.y \in Int
  BY InputConstants DEF Inp!InputAssumption
<1>2. PICK t \in ts :
        /\ t.y >= (Panel.minY + Panel.maxY) \div 2
        /\ \/ t.x < (Panel.minX + Panel.maxX) \div 2 /\ t.x >= Margin
           \/ ~(t.x < (Panel.minX + Panel.maxX) \div 2) /\ t.x < Panel.maxX - Margin
  BY DEF Inp!TouchBits
<1>3. t.x \in Int /\ Panel.minX + Panel.maxX = Panel.maxX
  BY <1>1
<1> DEFINE m == Panel.maxX
           h == m \div 2
<1>4. h \in Int /\ (m = 2 * h \/ m = 2 * h + 1)
  BY <1>1
<1> QED
  BY <1>1, <1>2, <1>3, <1>4

(* The invariant holds at first.                                           *)
LEMMA InputInit == Inp!Init => InputInv
<1> SUFFICES ASSUME Inp!Init PROVE InputInv
  OBVIOUS
<1>1. Inp!TypeOK
  BY InputConstants DEF Inp!InputAssumption, Inp!Init, Inp!TypeOK, Inp!Zeroed, Inp!NoPort
<1>2. CopiesAgree
  BY DEF Inp!Init, CopiesAgree
<1> QED
  BY <1>1, <1>2 DEF InputInv

(* Every query and every change of a device keeps the invariant.           *)
LEMMA InputStep == InputInv /\ [Inp!Next]_inputVars => InputInv'
<1> SUFFICES ASSUME InputInv, [Inp!Next]_inputVars PROVE InputInv'
  OBVIOUS
<1> USE DEF InputInv, Inp!TypeOK, CopiesAgree, Inp!pads, Inp!crouch, Inp!Answer
<1>1. ASSUME NEW port \in Inp!Asked, Inp!WarGamepad_GetGamepadType(port) PROVE InputInv'
  <2>1. CASE port \notin Inp!Ports \/ device[port] = Unplugged
    BY <1>1, <2>1 DEF Inp!WarGamepad_GetGamepadType
  <2>2. CASE port \in Inp!Ports /\ device[port] # Unplugged
    <3>1. /\ pad' = device[port] /\ of' = port
          /\ snapshot' = [snapshot EXCEPT ![port] = device[port]]
          /\ touch' = (IF port = 0 THEN screen ELSE touch)
          /\ touched' = (IF port = 0 THEN screen ELSE touched)
          /\ got' = [port |-> port, what |-> "type", value |-> {8}]
          /\ UNCHANGED <<device, screen, control, polled, prev, latch>>
      BY <1>1, <2>2 DEF Inp!WarGamepad_GetGamepadType
    <3>2. device[port] \in PadStates
      BY <2>2
    <3> QED
      BY <2>2, <3>1, <3>2
  <2> QED
    BY <2>1, <2>2
<1>2. ASSUME NEW port \in Inp!Asked, Inp!WarGamepad_GetGamepadButtons(port) PROVE InputInv'
  BY <1>2, BitsAre DEF Inp!WarGamepad_GetGamepadButtons
<1>3. ASSUME NEW port \in Inp!Asked, NEW axis \in 0 .. 6, Inp!WarGamepad_GetGamepadAxis(port, axis)
      PROVE  InputInv'
  <2>1. Inp!AxisOf(pad, axis) \in -128 .. 128
    BY AxisRange
  <2> QED
    BY <1>3, <2>1 DEF Inp!WarGamepad_GetGamepadAxis
<1>4. ASSUME NEW p \in Inp!Ports, Inp!ChangeDevice(p) PROVE InputInv'
  BY <1>4 DEF Inp!ChangeDevice
<1>5. CASE Inp!MaxPayne_ConfiguredInput_readCrouch
  BY <1>5 DEF Inp!MaxPayne_ConfiguredInput_readCrouch
<1>6. CASE Inp!ChangeScreen
  BY <1>6 DEF Inp!ChangeScreen
<1>7. CASE Inp!ChangeControl
  BY <1>7 DEF Inp!ChangeControl
<1>8. CASE UNCHANGED inputVars
  BY <1>8 DEF inputVars
<1> QED
  BY <1>1, <1>2, <1>3, <1>4, <1>5, <1>6, <1>7, <1>8 DEF Inp!Next, Inp!PadNext, Inp!CrouchNext

(* The three queries of the game.                                          *)
Queries ==
  \E port \in Inp!Asked :
    \/ Inp!WarGamepad_GetGamepadType(port)
    \/ Inp!WarGamepad_GetGamepadButtons(port)
    \/ \E axis \in 0 .. 6 : Inp!WarGamepad_GetGamepadAxis(port, axis)

(* Only they answer.                                                       *)
LEMMA OnlyQueriesAnswer ==
  ASSUME [Inp!Next]_inputVars, got' # got PROVE Queries
BY DEF Inp!Next, Inp!PadNext, Inp!CrouchNext, Queries, Inp!ChangeDevice,
       Inp!MaxPayne_ConfiguredInput_readCrouch,
       Inp!ChangeScreen, Inp!ChangeControl, Inp!pads, Inp!crouch, inputVars

(* What an answer of buttons is made of.                                   *)
LEMMA ButtonsAnswer ==
  ASSUME InputInv, [Inp!Next]_inputVars, got' # got, got'.what = "buttons"
  PROVE  got'.value = Inp!ButtonBits(pad.buttons) \union Inp!TouchBits(touch)
<1>1. Queries
  BY OnlyQueriesAnswer
<1> QED
  BY <1>1 DEF Queries, Inp!WarGamepad_GetGamepadType, Inp!WarGamepad_GetGamepadButtons,
              Inp!WarGamepad_GetGamepadAxis, Inp!Answer

(* An answer about any port is of the port that was read last, as it was   *)
(* then.                                                                   *)
LEMMA PortsAnswer ==
  ASSUME InputInv, [Inp!Next]_inputVars, got' # got
  PROVE  /\ got'.what = "buttons" =>
              got'.value \ {64, 128} = Inp!ButtonBits(snapshot[of].buttons) \ {64, 128}
         /\ got'.what = "axis" =>
              \E axis \in 0 .. 6 : got'.value = {Inp!AxisOf(snapshot[of], axis)}
<1>1. PICK port \in Inp!Asked :
        \/ Inp!WarGamepad_GetGamepadType(port)
        \/ Inp!WarGamepad_GetGamepadButtons(port)
        \/ \E axis \in 0 .. 6 : Inp!WarGamepad_GetGamepadAxis(port, axis)
  BY OnlyQueriesAnswer DEF Queries
<1>2. pad = snapshot[of]
  BY DEF InputInv, CopiesAgree
<1>3. ASSUME got'.what = "buttons"
      PROVE  got'.value \ {64, 128} = Inp!ButtonBits(snapshot[of].buttons) \ {64, 128}
  BY <1>2, <1>3, ButtonsAnswer, BitsAre
<1>4. ASSUME got'.what = "axis"
      PROVE  \E axis \in 0 .. 6 : got'.value = {Inp!AxisOf(snapshot[of], axis)}
  BY <1>1, <1>2, <1>4 DEF Inp!WarGamepad_GetGamepadType, Inp!WarGamepad_GetGamepadButtons,
              Inp!WarGamepad_GetGamepadAxis, Inp!Answer
<1> QED
  BY <1>3, <1>4

(* With no shoulder button held, the two bits are those of fingers.        *)
LEMMA TouchesAnswer ==
  ASSUME Panel.minX = 0, InputInv, [Inp!Next]_inputVars, got' # got,
         got'.what = "buttons", got'.value \intersect {64, 128} # {}
  PROVE  \/ pad.buttons \intersect {"l2", "r2"} # {}
         \/ \E t \in touched : /\ Margin <= t.x /\ t.x < Panel.maxX - Margin
                              /\ t.y >= (Panel.minY + Panel.maxY) \div 2
<1>1. touch = touched /\ touch \in Touches \union {{}}
  BY DEF InputInv, CopiesAgree, Inp!TypeOK
<1>2. CASE Inp!TouchBits(touch) # {}
  BY <1>1, <1>2, FingersCounted
<1>3. CASE Inp!TouchBits(touch) = {}
  BY <1>3, ButtonsAnswer, BitsAre
<1> QED
  BY <1>2, <1>3

(* readCrouch toggles when the control goes from released to held, and at  *)
(* no other time; a control is held as one value only, or a change from    *)
(* one to another would toggle as well.                                    *)
LEMMA CrouchToggles ==
  ASSUME \A c, d \in Controls \ {0} : c = d, InputInv, [Inp!Next]_inputVars
  PROVE  latch' # latch <=> polled = 0 /\ polled' # 0
<1>1. CASE Inp!MaxPayne_ConfiguredInput_readCrouch
  <2>1. prev = polled /\ {control, polled} \subseteq Controls /\ latch \in BOOLEAN
    BY DEF InputInv, CopiesAgree, Inp!TypeOK
  <2>2. /\ polled' = control
        /\ latch' = IF prev # control /\ control # 0 THEN ~latch ELSE latch
    BY <1>1 DEF Inp!MaxPayne_ConfiguredInput_readCrouch
  <2>3. CASE control = 0
    BY <2>2, <2>3
  <2>4. CASE control # 0 /\ polled = 0
    BY <2>1, <2>2, <2>4
  <2>5. CASE control # 0 /\ polled # 0
    BY <2>1, <2>2, <2>5
  <2> QED
    BY <2>3, <2>4, <2>5
<1>2. CASE UNCHANGED <<latch, polled>>
  BY <1>2
<1> QED
  BY <1>1, <1>2
     DEF Inp!Next, Inp!PadNext, Inp!CrouchNext,
         Inp!WarGamepad_GetGamepadType, Inp!WarGamepad_GetGamepadButtons,
         Inp!WarGamepad_GetGamepadAxis, Inp!ChangeDevice, Inp!ChangeScreen,
         Inp!ChangeControl, Inp!pads, Inp!crouch, inputVars

(* For any pads, touches and margin, and whichever port is asked about,    *)
(* what the game is told is what the last read that succeeded found, the   *)
(* margins of the touch screen are dead, and the crouch toggles once per   *)
(* press - if the panel starts at 0 (see FingersCounted) and getButton has *)
(* one value besides 0 (see CrouchToggles) (hooks/game.c:200-301).         *)
THEOREM AnswersTrue ==
  ASSUME Panel.minX = 0, \A c, d \in Controls \ {0} : c = d
  PROVE  ServicesSpec => AnswersAreTrue
<1>1. ServicesInit => InputInv
  BY InputInit DEF ServicesInit
<1>2. [ServicesNext]_allVars => [Inp!Next]_inputVars
  BY DEF ServicesNext, allVars, inputVars, Inp!Next
<1>3. InputInv => Inp!TypeOK
  BY DEF InputInv
<1>4. InputInv /\ [Inp!Next]_inputVars =>
        [ LET read == snapshot[of]
          IN  /\ got'.what = "buttons" =>
                   got'.value \ {64, 128} = Inp!ButtonBits(read.buttons) \ {64, 128}
              /\ got'.what = "axis" =>
                   \E axis \in 0 .. 6 : got'.value = {Inp!AxisOf(read, axis)} ]_got
  BY PortsAnswer
<1>5. InputInv /\ [Inp!Next]_inputVars =>
        [ got'.what = "buttons" /\ got'.value \intersect {64, 128} # {} =>
            \/ pad.buttons \intersect {"l2", "r2"} # {}
            \/ \E t \in touched : /\ Margin <= t.x /\ t.x < Panel.maxX - Margin
                                 /\ t.y >= (Panel.minY + Panel.maxY) \div 2 ]_got
  BY TouchesAnswer
<1>6. InputInv /\ [Inp!Next]_inputVars =>
        [ latch' # latch <=> polled = 0 /\ polled' # 0 ]_(Inp!vars)
  BY CrouchToggles
<1> QED
  BY <1>1, <1>2, <1>3, <1>4, <1>5, <1>6, InputStep, PTL
     DEF ServicesSpec, AnswersAreTrue, Inp!AnswersAreOfThePortRead, Inp!MarginsAreDead,
         Inp!CrouchTogglesOnPress

-----------------------------------------------------------------------------
(* The import table.                                                       *)

(* The symbols that are bound to stubs;                                    *)
Stubs ==
  {"AAssetManager_open", "AAsset_close", "AAsset_read", "AAsset_seek",
   "pthread_key_create", "pthread_key_delete", "pthread_getspecific",
   "pthread_setspecific", "pthread_setschedparam", "pthread_mutexattr_init",
   "pthread_mutexattr_settype", "pthread_mutexattr_destroy"}
     \union Imp!RenderbufferStubs

(* to the shims of imports.c;                                              *)
Shims ==
  {"pthread_cond_broadcast", "pthread_cond_destroy", "pthread_cond_init",
   "pthread_cond_signal", "pthread_cond_timedwait", "pthread_cond_wait",
   "pthread_mutex_destroy", "pthread_mutex_init", "pthread_mutex_lock",
   "pthread_mutex_unlock", "pthread_once", "sem_destroy", "sem_init",
   "sem_post", "sem_trywait", "sem_wait"}

(* to newlib's functions;                                                  *)
Newlib ==
  {"stderr", "pthread_create", "pthread_join", "pthread_self", "calloc", "free",
   "malloc", "realloc", "fprintf", "close", "lseek", "open", "read", "write"}

(* to those of the console's C library;                                    *)
Bridge ==
  {"fopen", "fclose", "fread", "fseek", "ftell", "fwrite", "ferror", "feof"}

(* and to vitaGL.                                                          *)
Graphics ==
  {"glBindFramebuffer", "glBindTexture", "glCompressedTexImage2D",
   "glDeleteFramebuffers", "glDeleteTextures", "glFramebufferTexture2D",
   "glGenFramebuffers", "glGenTextures", "glTexParameterf", "glTexParameteri"}

(* All of them.                                                            *)
Symbols == {"__sF"} \union Stubs \union Shims \union Newlib \union Bridge \union Graphics

(* The libraries.                                                          *)
Libs == {"fake", "stub", "shim", "newlib", "bridge", "vitaGL"}

(* An entry of the table.                                                  *)
Entry == [symbol : Symbols, lib : Libs, hook : BOOLEAN]

(* The library each symbol is bound to.                                    *)
LibraryOf(name) ==
  IF name = "__sF" THEN "fake"
  ELSE IF name \in Stubs THEN "stub"
  ELSE IF name \in Shims THEN "shim"
  ELSE IF name \in Newlib THEN "newlib"
  ELSE IF name \in Bridge THEN "bridge"
  ELSE "vitaGL"

(* A table whose entries are of the libraries of their symbols.            *)
Faithful(s) ==
  /\ s \in Seq(Entry)
  /\ \A k \in DOMAIN s : s[k].lib = LibraryOf(s[k].symbol)

(* The symbols of a table.                                                 *)
Names(s) == {s[k].symbol : k \in DOMAIN s}

(* A table without hooks.                                                  *)
Plain(s) == \A k \in DOMAIN s : ~s[k].hook

(* A part of the table as it is in the source, with the symbols N.         *)
Piece(s, N) == Faithful(s) /\ Plain(s) /\ Names(s) = N

(* No symbol is in two of the sets.                                        *)
LEMMA Libraries ==
  /\ LibraryOf("__sF") = "fake"
  /\ \A n \in Stubs : LibraryOf(n) = "stub"
  /\ \A n \in Shims : LibraryOf(n) = "shim"
  /\ \A n \in Newlib : LibraryOf(n) = "newlib"
  /\ \A n \in Bridge : LibraryOf(n) = "bridge"
  /\ \A n \in Graphics : LibraryOf(n) = "vitaGL"
<1> USE DEF Stubs, Imp!RenderbufferStubs, Shims, Newlib, Bridge, Graphics
<1>1. LibraryOf("__sF") = "fake"
  BY DEF LibraryOf
<1>2. \A n \in Stubs : n # "__sF"
  OBVIOUS
<1>3. \A n \in Shims : n \notin Stubs /\ n # "__sF"
  OBVIOUS
<1>4. \A n \in Newlib : n \notin Stubs /\ n \notin Shims /\ n # "__sF"
  OBVIOUS
<1>5. \A n \in Bridge : n \notin Stubs /\ n \notin Shims /\ n \notin Newlib /\ n # "__sF"
  OBVIOUS
<1>6. \A n \in Graphics :
        n \notin Stubs /\ n \notin Shims /\ n \notin Newlib /\ n \notin Bridge /\ n # "__sF"
  OBVIOUS
<1> HIDE DEF Stubs, Shims, Newlib, Bridge, Graphics
<1>7. \A n \in Stubs : LibraryOf(n) = "stub"
  BY <1>2 DEF LibraryOf
<1>8. \A n \in Shims : LibraryOf(n) = "shim"
  BY <1>3 DEF LibraryOf
<1>9. \A n \in Newlib : LibraryOf(n) = "newlib"
  BY <1>4 DEF LibraryOf
<1>10. \A n \in Bridge : LibraryOf(n) = "bridge"
  BY <1>5 DEF LibraryOf
<1>11. \A n \in Graphics : LibraryOf(n) = "vitaGL"
  BY <1>6 DEF LibraryOf
<1> QED
  BY <1>1, <1>7, <1>8, <1>9, <1>10, <1>11

(* Entries that name the library of their symbols.                         *)
LEMMA EntriesAre ==
  ASSUME NEW S, S \subseteq Symbols,
         NEW names \in Seq(S), S = {names[k] : k \in DOMAIN names},
         NEW s, s = [k \in DOMAIN names |->
                      [symbol |-> names[k], lib |-> LibraryOf(names[k]), hook |-> FALSE]]
  PROVE  Piece(s, S)
<1>1. /\ DOMAIN names = 1 .. Len(names) /\ Len(names) \in Nat
      /\ \A k \in DOMAIN names : names[k] \in S
  OBVIOUS
<1>2. \A n \in S : LibraryOf(n) \in Libs
  BY DEF LibraryOf, Libs
<1>3. s \in Seq(Entry)
  <2>1. \A k \in 1 .. Len(names) :
          [symbol |-> names[k], lib |-> LibraryOf(names[k]), hook |-> FALSE] \in Entry
    BY <1>1, <1>2 DEF Entry
  <2> QED
    BY <1>1, <2>1
<1>4. Faithful(s) /\ Plain(s) /\ Names(s) = S
  BY <1>1, <1>3 DEF Faithful, Plain, Names
<1> QED
  BY <1>4 DEF Piece

(* A run of entries of one library.                                        *)
LEMMA RunOfEntries ==
  ASSUME NEW S, S \subseteq Symbols,
         NEW names \in Seq(S), S = {names[k] : k \in DOMAIN names},
         NEW lib, \A n \in S : LibraryOf(n) = lib
  PROVE  Piece(Imp!Entries(lib, names), S)
<1>1. \A k \in DOMAIN names : LibraryOf(names[k]) = lib
  OBVIOUS
<1>2. Imp!Entries(lib, names) =
        [k \in DOMAIN names |->
          [symbol |-> names[k], lib |-> LibraryOf(names[k]), hook |-> FALSE]]
  BY <1>1 DEF Imp!Entries
<1> QED
  BY <1>2, EntriesAre

(* Two parts make a part.                                                  *)
LEMMA JoinedAre ==
  ASSUME NEW s, NEW t, NEW M, NEW N, Piece(s, M), Piece(t, N)
  PROVE  Piece(s \o t, M \union N)
<1>1. s \in Seq(Entry) /\ t \in Seq(Entry)
  BY DEF Piece, Faithful
<1>2. /\ s \o t \in Seq(Entry) /\ Len(s \o t) = Len(s) + Len(t)
      /\ DOMAIN s = 1 .. Len(s) /\ DOMAIN t = 1 .. Len(t)
      /\ DOMAIN (s \o t) = 1 .. (Len(s) + Len(t))
      /\ Len(s) \in Nat /\ Len(t) \in Nat
  BY <1>1
<1>3. \A k \in DOMAIN s : k \in DOMAIN (s \o t) /\ (s \o t)[k] = s[k]
  BY <1>1, <1>2
<1>4. \A k \in DOMAIN t : Len(s) + k \in DOMAIN (s \o t) /\ (s \o t)[Len(s) + k] = t[k]
  BY <1>1, <1>2
<1>5. \A m \in DOMAIN (s \o t) :
        \/ m \in DOMAIN s /\ (s \o t)[m] = s[m]
        \/ m - Len(s) \in DOMAIN t /\ (s \o t)[m] = t[m - Len(s)]
  BY <1>1, <1>2
<1>6. Faithful(s \o t)
  BY <1>2, <1>5 DEF Piece, Faithful
<1>7. Plain(s \o t)
  BY <1>5 DEF Piece, Plain
<1>8. Names(s \o t) = Names(s) \union Names(t)
  <2>1. Names(s) \union Names(t) \subseteq Names(s \o t)
    BY <1>3, <1>4 DEF Names
  <2>2. \A m \in DOMAIN (s \o t) : (s \o t)[m].symbol \in Names(s) \union Names(t)
    BY <1>5 DEF Names
  <2>3. Names(s \o t) \subseteq Names(s) \union Names(t)
    BY <2>2 DEF Names
  <2> QED
    BY <2>1, <2>3
<1> QED
  BY <1>6, <1>7, <1>8 DEF Piece

(* dynlib_functions names the library of every symbol, and no hook.        *)
LEMMA TableIs == Piece(Imp!dynlib_functions, Symbols)
<1> DEFINE
     N1 == {"__sF"}
     E1 == <<"__sF">>
     N2 == {"stderr"}
     E2 == <<"stderr">>
     N3 == {"AAssetManager_open", "AAsset_close", "AAsset_read",
            "AAsset_seek"}
     E3 == <<"AAssetManager_open", "AAsset_close", "AAsset_read",
             "AAsset_seek">>
     N4 == {"pthread_key_create", "pthread_key_delete",
            "pthread_getspecific", "pthread_setspecific"}
     E4 == <<"pthread_key_create", "pthread_key_delete",
             "pthread_getspecific", "pthread_setspecific">>
     N5 == {"pthread_cond_broadcast", "pthread_cond_destroy",
            "pthread_cond_init", "pthread_cond_signal",
            "pthread_cond_timedwait", "pthread_cond_wait"}
     E5 == <<"pthread_cond_broadcast", "pthread_cond_destroy",
             "pthread_cond_init", "pthread_cond_signal",
             "pthread_cond_timedwait", "pthread_cond_wait">>
     N6 == {"pthread_create", "pthread_join", "pthread_self"}
     E6 == <<"pthread_create", "pthread_join", "pthread_self">>
     N7 == {"pthread_setschedparam", "pthread_mutexattr_init",
            "pthread_mutexattr_settype", "pthread_mutexattr_destroy"}
     E7 == <<"pthread_setschedparam", "pthread_mutexattr_init",
             "pthread_mutexattr_settype", "pthread_mutexattr_destroy">>
     N8 == {"pthread_mutex_destroy", "pthread_mutex_init",
            "pthread_mutex_lock", "pthread_mutex_unlock", "pthread_once",
            "sem_destroy", "sem_init", "sem_post", "sem_trywait",
            "sem_wait"}
     E8 == <<"pthread_mutex_destroy", "pthread_mutex_init",
             "pthread_mutex_lock", "pthread_mutex_unlock", "pthread_once",
             "sem_destroy", "sem_init", "sem_post", "sem_trywait",
             "sem_wait">>
     N9 == {"calloc", "free", "malloc", "realloc"}
     E9 == <<"calloc", "free", "malloc", "realloc">>
     N10 == {"fopen", "fclose"}
     E10 == <<"fopen", "fclose">>
     N11 == {"fprintf"}
     E11 == <<"fprintf">>
     N12 == {"fread", "fseek", "ftell", "fwrite", "ferror", "feof"}
     E12 == <<"fread", "fseek", "ftell", "fwrite", "ferror", "feof">>
     N13 == {"close", "lseek", "open", "read", "write"}
     E13 == <<"close", "lseek", "open", "read", "write">>
     N14 == {"glBindFramebuffer", "glBindRenderbuffer", "glBindTexture",
             "glCompressedTexImage2D", "glDeleteFramebuffers",
             "glDeleteRenderbuffers", "glDeleteTextures",
             "glFramebufferRenderbuffer", "glFramebufferTexture2D",
             "glGenFramebuffers", "glGenRenderbuffers", "glGenTextures",
             "glRenderbufferStorage", "glTexParameterf", "glTexParameteri"}
<1>1. Piece(Imp!Entries("fake", E1), N1)
  <2>1. E1 \in Seq(N1) /\ N1 = {E1[k] : k \in DOMAIN E1}
    OBVIOUS
  <2>2. \A n \in N1 : LibraryOf(n) = "fake"
    BY Libraries
  <2>3. N1 \subseteq Symbols
    BY DEF Symbols
  <2> HIDE DEF N1, E1
  <2> QED
    BY <2>1, <2>2, <2>3, RunOfEntries
<1>2. Piece(Imp!Entries("newlib", E2), N2)
  <2>1. E2 \in Seq(N2) /\ N2 = {E2[k] : k \in DOMAIN E2}
    OBVIOUS
  <2>2. \A n \in N2 : LibraryOf(n) = "newlib"
    BY Libraries DEF Newlib
  <2>3. N2 \subseteq Symbols
    BY DEF Symbols, Newlib
  <2> HIDE DEF N2, E2
  <2> QED
    BY <2>1, <2>2, <2>3, RunOfEntries
<1>3. Piece(Imp!Entries("stub", E3), N3)
  <2>1. E3 \in Seq(N3) /\ N3 = {E3[k] : k \in DOMAIN E3}
    OBVIOUS
  <2>2. \A n \in N3 : LibraryOf(n) = "stub"
    BY Libraries DEF Stubs
  <2>3. N3 \subseteq Symbols
    BY DEF Symbols, Stubs
  <2> HIDE DEF N3, E3
  <2> QED
    BY <2>1, <2>2, <2>3, RunOfEntries
<1>4. Piece(Imp!Entries("stub", E4), N4)
  <2>1. E4 \in Seq(N4) /\ N4 = {E4[k] : k \in DOMAIN E4}
    OBVIOUS
  <2>2. \A n \in N4 : LibraryOf(n) = "stub"
    BY Libraries DEF Stubs
  <2>3. N4 \subseteq Symbols
    BY DEF Symbols, Stubs
  <2> HIDE DEF N4, E4
  <2> QED
    BY <2>1, <2>2, <2>3, RunOfEntries
<1>5. Piece(Imp!Entries("shim", E5), N5)
  <2>1. E5 \in Seq(N5) /\ N5 = {E5[k] : k \in DOMAIN E5}
    OBVIOUS
  <2>2. \A n \in N5 : LibraryOf(n) = "shim"
    BY Libraries DEF Shims
  <2>3. N5 \subseteq Symbols
    BY DEF Symbols, Shims
  <2> HIDE DEF N5, E5
  <2> QED
    BY <2>1, <2>2, <2>3, RunOfEntries
<1>6. Piece(Imp!Entries("newlib", E6), N6)
  <2>1. E6 \in Seq(N6) /\ N6 = {E6[k] : k \in DOMAIN E6}
    OBVIOUS
  <2>2. \A n \in N6 : LibraryOf(n) = "newlib"
    BY Libraries DEF Newlib
  <2>3. N6 \subseteq Symbols
    BY DEF Symbols, Newlib
  <2> HIDE DEF N6, E6
  <2> QED
    BY <2>1, <2>2, <2>3, RunOfEntries
<1>7. Piece(Imp!Entries("stub", E7), N7)
  <2>1. E7 \in Seq(N7) /\ N7 = {E7[k] : k \in DOMAIN E7}
    OBVIOUS
  <2>2. \A n \in N7 : LibraryOf(n) = "stub"
    BY Libraries DEF Stubs
  <2>3. N7 \subseteq Symbols
    BY DEF Symbols, Stubs
  <2> HIDE DEF N7, E7
  <2> QED
    BY <2>1, <2>2, <2>3, RunOfEntries
<1>8. Piece(Imp!Entries("shim", E8), N8)
  <2>1. E8 \in Seq(N8) /\ N8 = {E8[k] : k \in DOMAIN E8}
    OBVIOUS
  <2>2. \A n \in N8 : LibraryOf(n) = "shim"
    BY Libraries DEF Shims
  <2>3. N8 \subseteq Symbols
    BY DEF Symbols, Shims
  <2> HIDE DEF N8, E8
  <2> QED
    BY <2>1, <2>2, <2>3, RunOfEntries
<1>9. Piece(Imp!Entries("newlib", E9), N9)
  <2>1. E9 \in Seq(N9) /\ N9 = {E9[k] : k \in DOMAIN E9}
    OBVIOUS
  <2>2. \A n \in N9 : LibraryOf(n) = "newlib"
    BY Libraries DEF Newlib
  <2>3. N9 \subseteq Symbols
    BY DEF Symbols, Newlib
  <2> HIDE DEF N9, E9
  <2> QED
    BY <2>1, <2>2, <2>3, RunOfEntries
<1>10. Piece(Imp!Entries("bridge", E10), N10)
  <2>1. E10 \in Seq(N10) /\ N10 = {E10[k] : k \in DOMAIN E10}
    OBVIOUS
  <2>2. \A n \in N10 : LibraryOf(n) = "bridge"
    BY Libraries DEF Bridge
  <2>3. N10 \subseteq Symbols
    BY DEF Symbols, Bridge
  <2> HIDE DEF N10, E10
  <2> QED
    BY <2>1, <2>2, <2>3, RunOfEntries
<1>11. Piece(Imp!Entries("newlib", E11), N11)
  <2>1. E11 \in Seq(N11) /\ N11 = {E11[k] : k \in DOMAIN E11}
    OBVIOUS
  <2>2. \A n \in N11 : LibraryOf(n) = "newlib"
    BY Libraries DEF Newlib
  <2>3. N11 \subseteq Symbols
    BY DEF Symbols, Newlib
  <2> HIDE DEF N11, E11
  <2> QED
    BY <2>1, <2>2, <2>3, RunOfEntries
<1>12. Piece(Imp!Entries("bridge", E12), N12)
  <2>1. E12 \in Seq(N12) /\ N12 = {E12[k] : k \in DOMAIN E12}
    OBVIOUS
  <2>2. \A n \in N12 : LibraryOf(n) = "bridge"
    BY Libraries DEF Bridge
  <2>3. N12 \subseteq Symbols
    BY DEF Symbols, Bridge
  <2> HIDE DEF N12, E12
  <2> QED
    BY <2>1, <2>2, <2>3, RunOfEntries
<1>13. Piece(Imp!Entries("newlib", E13), N13)
  <2>1. E13 \in Seq(N13) /\ N13 = {E13[k] : k \in DOMAIN E13}
    OBVIOUS
  <2>2. \A n \in N13 : LibraryOf(n) = "newlib"
    BY Libraries DEF Newlib
  <2>3. N13 \subseteq Symbols
    BY DEF Symbols, Newlib
  <2> HIDE DEF N13, E13
  <2> QED
    BY <2>1, <2>2, <2>3, RunOfEntries
<1>14. Piece(Imp!GLImports, N14)
  <2>1. /\ Imp!GLNames \in Seq(N14)
        /\ N14 = {Imp!GLNames[k] : k \in DOMAIN Imp!GLNames} /\ N14 \subseteq Symbols
    BY DEF Imp!GLNames, Symbols, Graphics, Stubs, Imp!RenderbufferStubs
  <2>2. \A n \in N14 :
          LibraryOf(n) = IF n \in Imp!RenderbufferStubs THEN "stub" ELSE "vitaGL"
    <3>1. \A n \in N14 \ Imp!RenderbufferStubs : n \in Graphics
      BY DEF Imp!RenderbufferStubs, Graphics
    <3>2. Imp!RenderbufferStubs \subseteq Stubs
      BY DEF Stubs
    <3> QED
      BY <3>1, <3>2, Libraries
  <2> HIDE DEF N14
  <2>3. Imp!GLImports =
          [k \in DOMAIN Imp!GLNames |->
            [symbol |-> Imp!GLNames[k], lib |-> LibraryOf(Imp!GLNames[k]), hook |-> FALSE]]
    BY <2>1, <2>2 DEF Imp!GLImports
  <2> QED
    BY <2>1, <2>3, EntriesAre
<1>15. Symbols = (N1 \union N2) \union N3
                   \union ((((N4 \union N5) \union N6) \union N7) \union N8)
                   \union N9 \union ((N10 \union N11) \union N12)
                   \union (N14 \union N13)
  BY DEF Symbols, Stubs, Imp!RenderbufferStubs, Shims, Newlib, Bridge, Graphics
<1> HIDE DEF N1,N2,N3,N4,N5,N6,N7,N8,N9,N10,N11,N12,N13,N14
<1>16. Piece(Imp!StreamImports, N1 \union N2)
  BY <1>1, <1>2, JoinedAre DEF Imp!StreamImports
<1>17. Piece(Imp!AssetImports, N3)
  BY <1>3 DEF Imp!AssetImports
<1>18. Piece(Imp!ThreadImports, (((N4 \union N5) \union N6) \union N7) \union N8)
  <2>1. Piece(Imp!Entries("stub", E4) \o Imp!Entries("shim", E5), N4 \union N5)
    BY <1>4, <1>5, JoinedAre
  <2>2. Piece(Imp!Entries("stub", E4) \o Imp!Entries("shim", E5) \o Imp!Entries("newlib", E6),
              (N4 \union N5) \union N6)
    BY <1>6, <2>1, JoinedAre
  <2>3. Piece(Imp!Entries("stub", E4) \o Imp!Entries("shim", E5) \o Imp!Entries("newlib", E6)
                \o Imp!Entries("stub", E7),
              ((N4 \union N5) \union N6) \union N7)
    BY <1>7, <2>2, JoinedAre
  <2>4. Piece(Imp!Entries("stub", E4) \o Imp!Entries("shim", E5) \o Imp!Entries("newlib", E6)
                \o Imp!Entries("stub", E7) \o Imp!Entries("shim", E8),
              (((N4 \union N5) \union N6) \union N7) \union N8)
    BY <1>8, <2>3, JoinedAre
  <2> QED
    BY <2>4 DEF Imp!ThreadImports, Imp!HostThreads
<1>19. Piece(Imp!BlockImports, N9)
  BY <1>9 DEF Imp!BlockImports
<1>20. Piece(Imp!FileImports, (N10 \union N11) \union N12)
  <2>1. Piece(Imp!Entries("bridge", E10) \o Imp!Entries("newlib", E11), N10 \union N11)
    BY <1>10, <1>11, JoinedAre
  <2> QED
    BY <1>12, <2>1, JoinedAre DEF Imp!FileImports
<1>21. Piece(Imp!DescriptorImports, N13)
  BY <1>13 DEF Imp!DescriptorImports
<1> DEFINE T1 == Imp!StreamImports \o Imp!AssetImports
           T2 == T1 \o Imp!ThreadImports
           T3 == T2 \o Imp!BlockImports
           T4 == T3 \o Imp!FileImports
           T5 == Imp!GLImports \o Imp!DescriptorImports
           M1 == (N1 \union N2) \union N3
           M2 == M1 \union ((((N4 \union N5) \union N6) \union N7) \union N8)
           M3 == M2 \union N9
           M4 == M3 \union ((N10 \union N11) \union N12)
           M5 == N14 \union N13
<1>22. Piece(T1, M1)
  BY <1>16, <1>17, JoinedAre
<1> HIDE DEF T1, M1
<1>23. Piece(T2, M2)
  BY <1>18, <1>22, JoinedAre
<1> HIDE DEF T2, M2
<1>24. Piece(T3, M3)
  BY <1>19, <1>23, JoinedAre
<1> HIDE DEF T3, M3
<1>25. Piece(T4, M4)
  BY <1>20, <1>24, JoinedAre
<1> HIDE DEF T4, M4
<1>26. Piece(T5, M5)
  BY <1>14, <1>21, JoinedAre
<1> HIDE DEF T5, M5
<1>27. Piece(T4 \o T5, M4 \union M5)
  BY <1>25, <1>26, JoinedAre
<1> QED
  BY <1>15, <1>27 DEF T1, T2, T3, T4, T5, M1, M2, M3, M4, M5, Imp!dynlib_functions,
                      Imp!SystemImports, Imp!RemainingImports

(* What makes, uses and ends an object of a kind is of one library, but    *)
(* for fprintf and the stubs.                                              *)
LEMMA HomeOfKinds ==
  ASSUME NEW kind \in Imp!Kinds
  PROVE  /\ Imp!Makes[kind] \in Symbols /\ Imp!Ends[kind] \in Symbols
         /\ Imp!Uses[kind] \subseteq Symbols
         /\ LibraryOf(Imp!Makes[kind]) \in Libs \ {"fake"}
         /\ LibraryOf(Imp!Ends[kind]) = LibraryOf(Imp!Makes[kind])
         /\ \A symbol \in Imp!Uses[kind] :
              \/ symbol = "fprintf"
              \/ LibraryOf(symbol) \in {LibraryOf(Imp!Makes[kind]), "stub"}
<1> DEFINE Home(k, L) == /\ Imp!Makes[k] \in L /\ Imp!Ends[k] \in L
                         /\ Imp!Uses[k] \subseteq L \union Stubs \union {"fprintf"}
<1>1. \/ \E k \in {"file"} : kind = k
      \/ kind \in {"block", "descriptor", "thread"}
      \/ kind \in {"mutex", "cond", "semaphore"}
      \/ kind \in {"key", "asset", "renderbuffer"}
      \/ kind \in {"texture", "framebuffer"}
  BY DEF Imp!Kinds, Imp!Makes
<1>2. \E L \in {Bridge, Newlib, Shims, Stubs, Graphics} : Home(kind, L)
  <2>1. CASE kind = "file"
    <3>1. Home("file", Bridge)
      BY DEF Imp!Makes, Imp!Ends, Imp!Uses, Imp!FileFunctions, Bridge
    <3> QED
      BY <2>1, <3>1
  <2>2. CASE kind \in {"block", "descriptor", "thread"}
    <3>1. Home("block", Newlib)
      BY DEF Imp!Makes, Imp!Ends, Imp!Uses, Newlib
    <3>2. Home("descriptor", Newlib)
      BY DEF Imp!Makes, Imp!Ends, Imp!Uses, Newlib
    <3>3. Home("thread", Newlib)
      BY DEF Imp!Makes, Imp!Ends, Imp!Uses, Newlib, Stubs
    <3> QED
      BY <2>2, <3>1, <3>2, <3>3
  <2>3. CASE kind \in {"mutex", "cond", "semaphore"}
    <3>1. Home("mutex", Shims)
      BY DEF Imp!Makes, Imp!Ends, Imp!Uses, Shims
    <3>2. Home("cond", Shims)
      BY DEF Imp!Makes, Imp!Ends, Imp!Uses, Shims
    <3>3. Home("semaphore", Shims)
      BY DEF Imp!Makes, Imp!Ends, Imp!Uses, Shims
    <3> QED
      BY <2>3, <3>1, <3>2, <3>3
  <2>4. CASE kind \in {"key", "asset", "renderbuffer"}
    <3>1. Home("key", Stubs)
      BY DEF Imp!Makes, Imp!Ends, Imp!Uses, Stubs
    <3>2. Home("asset", Stubs)
      BY DEF Imp!Makes, Imp!Ends, Imp!Uses, Stubs
    <3>3. Home("renderbuffer", Stubs)
      BY DEF Imp!Makes, Imp!Ends, Imp!Uses, Stubs, Imp!RenderbufferStubs
    <3> QED
      BY <2>4, <3>1, <3>2, <3>3
  <2>5. CASE kind \in {"texture", "framebuffer"}
    <3>1. Home("texture", Graphics)
      BY DEF Imp!Makes, Imp!Ends, Imp!Uses, Graphics
    <3>2. Home("framebuffer", Graphics)
      BY DEF Imp!Makes, Imp!Ends, Imp!Uses, Graphics
    <3> QED
      BY <2>5, <3>1, <3>2
  <2> HIDE DEF Home
  <2> QED
    BY <1>1, <2>1, <2>2, <2>3, <2>4, <2>5
<1>3. PICK L \in {Bridge, Newlib, Shims, Stubs, Graphics} : Home(kind, L)
  BY <1>2
<1>4. /\ L \subseteq Symbols
      /\ \A m, n \in L : LibraryOf(m) = LibraryOf(n)
      /\ \A n \in L : LibraryOf(n) \in Libs \ {"fake"}
  BY Libraries DEF Symbols, Libs
<1>5. "fprintf" \in Symbols /\ Stubs \subseteq Symbols
  BY DEF Symbols, Newlib
<1>6. \A symbol \in Stubs : LibraryOf(symbol) = "stub"
  BY Libraries
<1> HIDE DEF Stubs
<1> QED
  BY <1>3, <1>4, <1>5, <1>6

(* Printing is newlib's, and so is stderr; but the streams of __sF and the *)
(* files are not, and of the objects of the game only files are printed    *)
(* to.                                                                     *)
LEMMA PrintingIsNewlibs ==
  /\ {"fprintf", "stderr", "__sF"} \subseteq Symbols
  /\ LibraryOf("fprintf") = "newlib" /\ LibraryOf("stderr") = "newlib"
  /\ LibraryOf("__sF") = "fake"
  /\ \A kind \in Imp!Kinds :
       /\ Imp!Makes[kind] # "fprintf" /\ Imp!Ends[kind] # "fprintf"
       /\ "fprintf" \in Imp!Uses[kind] => LibraryOf(Imp!Makes[kind]) = "bridge"
<1>1. {"fprintf", "stderr"} \subseteq Newlib /\ "fopen" \in Bridge
  BY DEF Newlib, Bridge
<1>2. ASSUME NEW kind \in Imp!Kinds
      PROVE  Imp!Makes[kind] # "fprintf" /\ Imp!Ends[kind] # "fprintf"
  BY DEF Imp!Kinds, Imp!Makes, Imp!Ends
<1>3. ASSUME NEW kind \in Imp!Kinds, "fprintf" \in Imp!Uses[kind]
      PROVE  Imp!Makes[kind] = "fopen"
  BY <1>3 DEF Imp!Kinds, Imp!Makes, Imp!Uses, Imp!FileFunctions
<1> QED
  BY <1>1, <1>2, <1>3, Libraries DEF Symbols

(* k is the first entry of that name.                                      *)
First(s, name, k) ==
  /\ k \in DOMAIN s /\ s[k].symbol = name
  /\ \A m \in 1 .. k - 1 : s[m].symbol # name

(* Whether the function a symbol is bound to is a hook.                    *)
HookOf(s, name) == s[Imp!so_find_import(s, name)].hook

(* so_find_import finds the first entry of a symbol that has one.          *)
LEMMA FirstOf ==
  ASSUME NEW s \in Seq(Entry), NEW name \in Names(s)
  PROVE  First(s, name, Imp!so_find_import(s, name))
<1>1. DOMAIN s = 1 .. Len(s) /\ Len(s) \in Nat
  OBVIOUS
<1> DEFINE T == {m \in DOMAIN s : s[m].symbol = name}
<1>2. T \subseteq Nat /\ T # {}
  BY <1>1 DEF Names
<1>3. PICK k \in T : \A l \in T : k <= l
  <2> HIDE DEF T
  <2> QED
    BY <1>2, LeastNumber
<1>4. First(s, name, k)
  <2>1. \A m \in 1 .. k - 1 : m \in DOMAIN s /\ ~(k <= m)
    BY <1>1
  <2> QED
    BY <1>3, <2>1 DEF First
<1>5. \E l \in DOMAIN s : First(s, name, l)
  BY <1>4
<1> QED
  BY <1>5 DEF First, Imp!so_find_import

(* There is one first entry.                                               *)
LEMMA FirstIsOne ==
  ASSUME NEW s \in Seq(Entry), NEW name, NEW k, NEW l,
         First(s, name, k), First(s, name, l)
  PROVE  k = l
<1>1. k \in Nat \ {0} /\ l \in Nat \ {0}
  BY DEF First
<1>2. ~(k < l) /\ ~(l < k)
  BY <1>1 DEF First
<1> QED
  BY <1>1, <1>2

(* A function from 1 to n is a sequence.                                   *)
LEMMA SequenceOfEntries ==
  ASSUME NEW n \in Nat, NEW f, f = [k \in 1 .. n |-> f[k]],
         \A k \in 1 .. n : f[k] \in Entry
  PROVE  f \in Seq(Entry)
<1> HIDE DEF Entry
<1>1. f \in [1 .. n -> Entry]
  OBVIOUS
<1> QED
  BY <1>1

(* A hook replaces the function of its symbol, leaves all other entries as *)
(* they were, and so is found where the symbol is.                         *)
LEMMA Hooking ==
  ASSUME NEW s, Faithful(s), NEW name \in Names(s)
  PROVE  LET t == Imp!Hooked(s, name)
         IN  /\ Faithful(t) /\ Names(t) = Names(s)
             /\ \A n \in Names(s) :
                  HookOf(t, n) = (n = name \/ HookOf(s, n))
<1> DEFINE t == Imp!Hooked(s, name)
           atOf(n) == Imp!so_find_import(s, n)
<1>1. s \in Seq(Entry) /\ First(s, name, atOf(name))
  BY FirstOf DEF Faithful
<1>2. /\ t = [s EXCEPT ![atOf(name)].hook = TRUE]
      /\ DOMAIN s = 1 .. Len(s) /\ Len(s) \in Nat
      /\ atOf(name) \in DOMAIN s
  BY <1>1 DEF Imp!Hooked, First
<1> HIDE DEF atOf, t
<1>3. /\ DOMAIN t = DOMAIN s
      /\ \A k \in DOMAIN s : /\ t[k] \in Entry /\ t[k].symbol = s[k].symbol
                             /\ t[k].lib = s[k].lib
                             /\ t[k].hook = (k = atOf(name) \/ s[k].hook)
  <2>1. \A k \in DOMAIN s : s[k] \in Entry
    BY <1>1, <1>2
  <2> QED
    BY <1>2, <2>1 DEF Entry
<1>4. t \in Seq(Entry)
  <2>1. t = [k \in 1 .. Len(s) |-> t[k]]
    BY <1>2, <1>3
  <2>2. \A k \in 1 .. Len(s) : t[k] \in Entry
    BY <1>2, <1>3
  <2> QED
    BY <1>2, <2>1, <2>2, SequenceOfEntries
<1>5. Faithful(t) /\ Names(t) = Names(s)
  BY <1>3, <1>4 DEF Faithful, Names
<1>6. ASSUME NEW n \in Names(s)
      PROVE  HookOf(t, n) = (n = name \/ HookOf(s, n))
  <2>1. First(s, n, atOf(n)) /\ First(t, n, Imp!so_find_import(t, n))
    BY <1>1, <1>4, <1>5, FirstOf DEF atOf
  <2>2. First(s, n, Imp!so_find_import(t, n))
    <3> DEFINE k == Imp!so_find_import(t, n)
    <3> HIDE DEF k
    <3>1. k \in 1 .. Len(s) /\ \A m \in 1 .. k - 1 : m \in DOMAIN s
      <4>1. k \in DOMAIN s
        BY <1>3, <2>1 DEF First, k
      <4> QED
        BY <1>2, <4>1
    <3>2. s[k].symbol = n /\ \A m \in 1 .. k - 1 : s[m].symbol # n
      BY <1>2, <1>3, <2>1, <3>1 DEF First, k
    <3> QED
      BY <1>2, <3>1, <3>2 DEF First, k
  <2>3. Imp!so_find_import(t, n) = atOf(n)
    BY <1>1, <2>1, <2>2, FirstIsOne
  <2>4. atOf(n) = atOf(name) <=> n = name
    BY <1>1, <2>1 DEF First
  <2>5. atOf(n) \in DOMAIN s /\ Imp!so_find_import(s, n) = atOf(n)
    BY <2>1 DEF First, atOf
  <2>6. t[atOf(n)].hook = (atOf(n) = atOf(name) \/ s[atOf(n)].hook)
    BY <1>3, <2>5
  <2> QED
    BY <2>3, <2>4, <2>5, <2>6 DEF HookOf
<1> QED
  BY <1>5, <1>6 DEF t

(* The two settings.                                                       *)
Settings == [disable_mipmaps : BOOLEAN, trilinear_filter : BOOLEAN]

(* A table whose hooks are those the settings ask for.                     *)
Adapted(s) ==
  /\ HookOf(s, "glCompressedTexImage2D") = config.disable_mipmaps
  /\ HookOf(s, "glTexParameteri") = config.trilinear_filter
  /\ HookOf(s, "glTexParameterf") = FALSE

(* The game has called nothing yet.                                        *)
Untouched ==
  /\ live = {} /\ last = Imp!NoCall /\ uploaded = {} /\ asked = {}
  /\ filter = "NEAREST_MIPMAP_LINEAR"
  /\ wanted = [way |-> "import", symbol |-> "glTexParameteri", val |-> filter]

(* The game is bound to the libraries of its symbols, and to the hooks the *)
(* settings ask for.                                                       *)
Bound ==
  /\ \A n \in Symbols : bound[n].lib = LibraryOf(n)
  /\ bound["glCompressedTexImage2D"].hook = config.disable_mipmaps
  /\ bound["glTexParameteri"].hook = config.trilinear_filter
  /\ bound["glTexParameterf"].hook = FALSE

(* The inductive invariant of the import table.                            *)
ImportsInv ==
  /\ stage \in {"update", "resolve", "run"} /\ config \in Settings
  /\ Faithful(table) /\ Names(table) = Symbols
  /\ stage = "update" => Plain(table)
  /\ stage = "resolve" => Adapted(table)
  /\ stage = "run" => Bound
  /\ stage # "run" => Untouched
  /\ \A o \in live : o.kind \in Imp!Kinds /\ o.lib = LibraryOf(Imp!Makes[o.kind])
  /\ Imp!TypeOK /\ Imp!ObjectsStayHome /\ Imp!NoMipmaps /\ Imp!Trilinear

(* The invariant holds at first.                                           *)
LEMMA ImportsInit == Imp!Init => ImportsInv
<1> SUFFICES ASSUME Imp!Init PROVE ImportsInv
  OBVIOUS
<1>1. Faithful(table) /\ Names(table) = Symbols /\ Plain(table)
  BY TableIs DEF Imp!Init, Piece
<1>2. stage = "update" /\ config \in Settings /\ Untouched
  BY DEF Imp!Init, Settings, Untouched
<1>3. Imp!TypeOK
  BY <1>2, ImportConstants
     DEF Imp!TypeOK, Untouched, Imp!ImportsAssumption, Imp!Ways, Imp!FilterSetters
<1>4. Imp!ObjectsStayHome
  BY <1>2 DEF Imp!ObjectsStayHome, Imp!LeavesHome, Untouched, Imp!NoCall
<1>5. Imp!NoMipmaps /\ Imp!Trilinear
  BY <1>2 DEF Imp!NoMipmaps, Imp!Trilinear, Untouched
<1> QED
  BY <1>1, <1>2, <1>3, <1>4, <1>5 DEF ImportsInv, Untouched

(* The symbols the model names are in the table.                           *)
LEMMA HooksAreNamed ==
  /\ "glCompressedTexImage2D" \in Symbols
  /\ "glTexParameteri" \in Symbols /\ "glTexParameterf" \in Symbols
  /\ "__sF" \in Symbols /\ "stderr" \in Symbols /\ "malloc" \in Symbols
  /\ LibraryOf("malloc") = "newlib"
<1>1. "malloc" \in Newlib
  BY DEF Newlib
<1> QED
  BY <1>1, Libraries DEF Symbols, Graphics, Newlib

(* A table without hooks has none for any symbol.                          *)
LEMMA PlainHasNoHook ==
  ASSUME NEW s, Faithful(s), Plain(s), NEW n \in Names(s)
  PROVE  HookOf(s, n) = FALSE
<1>1. Imp!so_find_import(s, n) \in DOMAIN s
  BY FirstOf DEF Faithful, First
<1>2. s \in Seq(Entry)
  BY DEF Faithful
<1>3. s[Imp!so_find_import(s, n)] \in Entry
  BY <1>1, <1>2
<1> QED
  BY <1>1, <1>3 DEF Plain, HookOf, Entry

(* update_imports sets the hooks the settings ask for.                     *)
LEMMA UpdateStep ==
  ASSUME ImportsInv, Imp!update_imports
  PROVE  ImportsInv'
<1> DEFINE gct == "glCompressedTexImage2D"
           gtp == "glTexParameteri"
           gtf == "glTexParameterf"
           mips == IF config.disable_mipmaps THEN Imp!Hooked(table, gct) ELSE table
<1>1. /\ stage = "update" /\ stage' = "resolve"
      /\ table' = IF config.trilinear_filter THEN Imp!Hooked(mips, gtp) ELSE mips
      /\ UNCHANGED <<config, bound, live, last, uploaded, filter, asked, wanted>>
  BY DEF Imp!update_imports, Imp!gl
<1>2. /\ Faithful(table) /\ Names(table) = Symbols /\ Plain(table) /\ Untouched
      /\ config.disable_mipmaps \in BOOLEAN /\ config.trilinear_filter \in BOOLEAN
  BY <1>1 DEF ImportsInv, Settings
<1>3. /\ HookOf(table, gct) = FALSE /\ HookOf(table, gtp) = FALSE
      /\ HookOf(table, gtf) = FALSE
  BY <1>2, HooksAreNamed, PlainHasNoHook
<1>4. /\ Faithful(mips) /\ Names(mips) = Symbols
      /\ HookOf(mips, gct) = config.disable_mipmaps
      /\ HookOf(mips, gtp) = FALSE /\ HookOf(mips, gtf) = FALSE
  BY <1>2, <1>3, HooksAreNamed, Hooking
<1> HIDE DEF mips
<1>5. /\ Faithful(table') /\ Names(table') = Symbols
      /\ HookOf(table', gct) = config.disable_mipmaps
      /\ HookOf(table', gtp) = config.trilinear_filter /\ HookOf(table', gtf) = FALSE
  BY <1>1, <1>2, <1>4, HooksAreNamed, Hooking
<1>6. Adapted(table)' /\ Untouched'
  BY <1>1, <1>2, <1>5 DEF Adapted, Untouched, HookOf, Imp!NoCall
<1>7. (Imp!TypeOK /\ Imp!ObjectsStayHome /\ Imp!NoMipmaps /\ Imp!Trilinear)'
  BY <1>1 DEF ImportsInv, Imp!TypeOK, Imp!ObjectsStayHome, Imp!LeavesHome,
              Imp!NoMipmaps, Imp!Trilinear
<1> QED
  BY <1>1, <1>5, <1>6, <1>7 DEF ImportsInv, Untouched

(* so_resolve binds every symbol to its entry.                             *)
LEMMA ResolveStep ==
  ASSUME ImportsInv, Imp!so_resolve
  PROVE  ImportsInv'
<1>1. /\ stage = "resolve" /\ stage' = "run"
      /\ bound' = [name \in Names(table) |-> table[Imp!so_find_import(table, name)]]
      /\ UNCHANGED <<config, table, live, last, uploaded, filter, asked, wanted>>
  BY DEF Imp!so_resolve, Imp!gl, Names
<1>2. /\ Faithful(table) /\ Names(table) = Symbols /\ Adapted(table) /\ Untouched
  BY <1>1 DEF ImportsInv
<1>3. \A n \in Symbols : bound'[n].lib = LibraryOf(n)
  <2> TAKE n \in Symbols
  <2>1. First(table, n, Imp!so_find_import(table, n))
    BY <1>2, FirstOf DEF Faithful
  <2> QED
    BY <1>1, <1>2, <2>1 DEF First, Faithful
<1>4. Bound'
  BY <1>1, <1>2, <1>3, HooksAreNamed DEF Bound, Adapted, HookOf
<1>5. (Imp!TypeOK /\ Imp!ObjectsStayHome /\ Imp!NoMipmaps /\ Imp!Trilinear)'
  BY <1>1 DEF ImportsInv, Imp!TypeOK, Imp!ObjectsStayHome, Imp!LeavesHome,
              Imp!NoMipmaps, Imp!Trilinear
<1> QED
  BY <1>1, <1>4, <1>5 DEF ImportsInv, Untouched

(* Objects are of libraries that are real.                                 *)
LEMMA LibrariesStay ==
  ASSUME NEW kind \in Imp!Kinds
  PROVE  LibraryOf(Imp!Makes[kind]) \in {"bridge", "newlib", "vitaGL", "shim", "stub"}
BY HomeOfKinds DEF Libs

(* Every call of the game keeps the invariant.                             *)
LEMMA RunningStep ==
  ASSUME ImportsInv, Imp!Next, stage = "run"
  PROVE  ImportsInv'
<1> DEFINE Home(o) == o.kind \in Imp!Kinds /\ o.lib = LibraryOf(Imp!Makes[o.kind])
           Lib5 == {"bridge", "newlib", "vitaGL", "shim", "stub"}
           Asked == [way : Imp!Ways, level : Levels]
           Wanted == [way : Imp!Ways, symbol : Imp!FilterSetters, val : Filters]
           GLTyped == /\ uploaded \subseteq Levels /\ asked \subseteq Asked
                      /\ filter \in Filters /\ wanted \in Wanted
<1>1. stage' = stage /\ config' = config /\ table' = table /\ bound' = bound
  BY DEF Imp!Next, Imp!update_imports, Imp!so_resolve, Imp!Make, Imp!Use, Imp!End,
         Imp!GiveBlock, Imp!PrintToStream, Imp!CompressedTexImage, Imp!TexParameter,
         Imp!Running
<1>2. Bound /\ \A o \in live : Home(o) /\ o.lib \in Lib5
  BY DEF ImportsInv, Imp!TypeOK
<1>3. SUFFICES /\ \A o \in live' : Home(o) /\ o.lib \in Lib5
               /\ GLTyped'
               /\ (Imp!ObjectsStayHome /\ Imp!NoMipmaps /\ Imp!Trilinear)'
  BY <1>1 DEF ImportsInv, Bound, Imp!TypeOK
<1>4. ASSUME Imp!gl' = Imp!gl
      PROVE  /\ GLTyped'
             /\ (Imp!NoMipmaps /\ Imp!Trilinear)'
  BY <1>1, <1>4 DEF ImportsInv, Imp!TypeOK, Imp!NoMipmaps, Imp!Trilinear, Imp!gl
<1>5. ASSUME UNCHANGED <<live, last>>
      PROVE  /\ \A o \in live' : Home(o) /\ o.lib \in Lib5
             /\ Imp!ObjectsStayHome'
  BY <1>2, <1>5 DEF ImportsInv, Imp!ObjectsStayHome, Imp!LeavesHome
<1>6. ASSUME NEW kind \in Imp!Kinds, Imp!Make(kind)
      PROVE  /\ \A o \in live' : Home(o) /\ o.lib \in Lib5
             /\ Imp!ObjectsStayHome' /\ Imp!gl' = Imp!gl
  <2> DEFINE new == [kind |-> kind, lib |-> bound[Imp!Makes[kind]].lib]
  <2>1. /\ live' = live \union {new} /\ Imp!gl' = Imp!gl
        /\ last' = [symbol |-> Imp!Makes[kind], lib |-> bound[Imp!Makes[kind]].lib,
                    object |-> new]
    BY <1>6 DEF Imp!Make, Imp!Call
  <2>2. Home(new) /\ new.lib \in Lib5
    BY <1>2, HomeOfKinds, LibrariesStay DEF Bound
  <2>3. Imp!ObjectsStayHome'
    BY <2>1, PrintingIsNewlibs DEF Imp!ObjectsStayHome, Imp!LeavesHome
  <2> QED
    BY <1>2, <2>1, <2>2, <2>3
<1>7. ASSUME NEW object \in live, Imp!Use(object)
      PROVE  live' = live /\ Imp!ObjectsStayHome' /\ Imp!gl' = Imp!gl
  <2>1. PICK symbol \in Imp!Uses[object.kind] : Imp!Call(symbol, object)
    BY <1>7 DEF Imp!Use
  <2>2. /\ last' = [symbol |-> symbol, lib |-> bound[symbol].lib, object |-> object]
        /\ live' = live /\ Imp!gl' = Imp!gl
    BY <1>7, <2>1 DEF Imp!Use, Imp!Call
  <2>3. CASE symbol = "fprintf"
    <3>1. bound[symbol].lib = "newlib" /\ object.lib = "bridge"
      BY <1>2, <2>1, <2>3, PrintingIsNewlibs DEF Bound
    <3> QED
      BY <2>2, <2>3, <3>1 DEF Imp!ObjectsStayHome, Imp!LeavesHome
  <2>4. CASE symbol # "fprintf"
    <3>1. bound[symbol].lib \in {object.lib, "stub"}
      BY <1>2, <2>4, HomeOfKinds DEF Bound
    <3> QED
      BY <2>2, <2>4, <3>1 DEF Imp!ObjectsStayHome, Imp!LeavesHome
  <2> QED
    BY <2>2, <2>3, <2>4
<1>8. ASSUME NEW object \in live, Imp!End(object)
      PROVE  /\ live' \subseteq live /\ Imp!ObjectsStayHome' /\ Imp!gl' = Imp!gl
  <2>1. /\ last' = [symbol |-> Imp!Ends[object.kind],
                    lib |-> bound[Imp!Ends[object.kind]].lib, object |-> object]
        /\ live' \subseteq live /\ Imp!gl' = Imp!gl
    BY <1>8 DEF Imp!End, Imp!Call
  <2>2. bound[Imp!Ends[object.kind]].lib = object.lib
    BY <1>2, HomeOfKinds DEF Bound
  <2>3. Imp!Ends[object.kind] # "fprintf"
    BY <1>2, PrintingIsNewlibs
  <2> QED
    BY <2>1, <2>2, <2>3 DEF Imp!ObjectsStayHome, Imp!LeavesHome
<1>9. ASSUME Imp!GiveBlock
      PROVE  /\ \A o \in live' : Home(o) /\ o.lib \in Lib5
             /\ Imp!ObjectsStayHome' /\ Imp!gl' = Imp!gl
  <2>1. /\ live' = live \union {[kind |-> "block", lib |-> "newlib"]}
        /\ last' = last /\ Imp!gl' = Imp!gl
    BY <1>9 DEF Imp!GiveBlock, Imp!gl
  <2>2. Home([kind |-> "block", lib |-> "newlib"])
    BY HooksAreNamed DEF Imp!Kinds, Imp!Makes
  <2>3. Imp!ObjectsStayHome'
    BY <2>1 DEF ImportsInv, Imp!ObjectsStayHome, Imp!LeavesHome
  <2> QED
    BY <1>2, <2>1, <2>2, <2>3
<1>10. ASSUME Imp!PrintToStream
       PROVE  live' = live /\ Imp!ObjectsStayHome' /\ Imp!gl' = Imp!gl
  <2>1. PICK stream \in {Imp!FakeStream, Imp!StderrStream} : Imp!Call("fprintf", stream)
    BY <1>10 DEF Imp!PrintToStream
  <2>2. bound["fprintf"].lib = "newlib" /\ stream.lib \in {"fake", "newlib"}
    BY <1>2, PrintingIsNewlibs DEF Bound, Imp!FakeStream, Imp!StderrStream
  <2>3. Imp!ObjectsStayHome'
    BY <2>1, <2>2 DEF Imp!Call, Imp!ObjectsStayHome, Imp!LeavesHome
  <2> QED
    BY <1>10, <2>3 DEF Imp!PrintToStream, Imp!gl
<1>11. ASSUME NEW way \in Imp!Ways, NEW level \in Levels,
              Imp!CompressedTexImage(way, level)
       PROVE  /\ UNCHANGED <<live, last>>
              /\ GLTyped'
              /\ (Imp!NoMipmaps /\ Imp!Trilinear)'
  <2> DEFINE call == [way |-> way, level |-> level]
  <2>1. /\ uploaded' = IF way = "import" /\ config.disable_mipmaps /\ level # 0
                       THEN uploaded ELSE uploaded \union {level}
        /\ asked' = asked \union {call}
        /\ UNCHANGED <<live, last, filter, wanted>>
    BY <1>2, <1>11 DEF Imp!CompressedTexImage, Imp!Replaced, Bound
  <2>2. GLTyped
    BY DEF ImportsInv, Imp!TypeOK
  <2>3. call \in Asked /\ call.way = way /\ call.level = level
    OBVIOUS
  <2> HIDE DEF call, Asked
  <2>4. Imp!NoMipmaps'
    BY <1>1, <2>1, <2>3 DEF ImportsInv, Imp!NoMipmaps
  <2>5. Imp!Trilinear'
    BY <1>1, <2>1 DEF ImportsInv, Imp!Trilinear
  <2> QED
    BY <2>1, <2>2, <2>3, <2>4, <2>5
<1>12. ASSUME NEW way \in Imp!Ways, NEW symbol \in Imp!FilterSetters, NEW val \in Filters,
              Imp!TexParameter(way, symbol, val)
       PROVE  /\ UNCHANGED <<live, last>>
              /\ GLTyped'
              /\ (Imp!NoMipmaps /\ Imp!Trilinear)'
  <2> DEFINE hooked == way = "import" /\ symbol = "glTexParameteri"
  <2>1. /\ filter' = IF /\ hooked /\ config.trilinear_filter
                        /\ val = "LINEAR_MIPMAP_NEAREST"
                     THEN "LINEAR_MIPMAP_LINEAR" ELSE val
        /\ wanted' = [way |-> way, symbol |-> symbol, val |-> val]
        /\ UNCHANGED <<live, last, uploaded, asked>>
    BY <1>2, <1>12 DEF Imp!TexParameter, Imp!Replaced, Imp!FilterSetters, Bound
  <2>2. uploaded \subseteq Levels /\ asked \subseteq Asked
        /\ "LINEAR_MIPMAP_LINEAR" \in Filters
    BY ImportConstants DEF ImportsInv, Imp!TypeOK, Imp!ImportsAssumption
  <2>3. Imp!NoMipmaps'
    BY <1>1, <2>1 DEF ImportsInv, Imp!NoMipmaps
  <2>4. wanted' \in Wanted /\ Imp!Trilinear'
    BY <1>1, <2>1 DEF Imp!Trilinear
  <2> QED
    BY <2>1, <2>2, <2>3, <2>4
<1> HIDE DEF Home, Lib5, Asked, Wanted, GLTyped
<1>13. CASE \E kind \in Imp!Kinds : Imp!Make(kind)
  BY <1>4, <1>6, <1>13
<1>14. CASE \E object \in live : Imp!Use(object) \/ Imp!End(object)
  BY <1>2, <1>4, <1>7, <1>8, <1>14
<1>15. CASE Imp!GiveBlock \/ Imp!PrintToStream
  BY <1>2, <1>4, <1>9, <1>10, <1>15
<1>16. CASE \E way \in Imp!Ways, level \in Levels : Imp!CompressedTexImage(way, level)
  BY <1>5, <1>11, <1>16
<1>17. CASE \E way \in Imp!Ways, symbol \in Imp!FilterSetters, val \in Filters :
              Imp!TexParameter(way, symbol, val)
  BY <1>5, <1>12, <1>17
<1>18. ~Imp!update_imports /\ ~Imp!so_resolve
  BY DEF Imp!update_imports, Imp!so_resolve
<1> QED
  BY <1>13, <1>14, <1>15, <1>16, <1>17, <1>18 DEF Imp!Next

(* Every step keeps the invariant.                                         *)
LEMMA ImportsStep ==
  ASSUME ImportsInv, [Imp!Next]_(Imp!vars)
  PROVE  ImportsInv'
<1>1. CASE UNCHANGED Imp!vars
  BY <1>1 DEF ImportsInv, Imp!vars, Imp!gl, Settings, Adapted, HookOf, Untouched, Bound,
              Imp!TypeOK, Imp!ObjectsStayHome, Imp!LeavesHome,
              Imp!NoMipmaps, Imp!Trilinear
<1>2. CASE Imp!Next /\ stage = "run"
  BY <1>2, RunningStep
<1>3. CASE Imp!Next /\ stage # "run"
  <2>1. Imp!update_imports \/ Imp!so_resolve
    BY <1>3 DEF Imp!Next, Imp!Make, Imp!Use, Imp!End, Imp!GiveBlock, Imp!PrintToStream,
                Imp!CompressedTexImage, Imp!TexParameter, Imp!Running
  <2> QED
    BY <2>1, UpdateStep, ResolveStep
<1> QED
  BY <1>1, <1>2, <1>3

(* For any levels, filters and settings, vitaGL is given the levels and    *)
(* the filters the settings ask for by the functions the game imports, and *)
(* those the game asked for by any other: the hooks are in place when      *)
(* so_resolve binds the game, each under its own setting, and nowhere else *)
(* (imports.c:305-316, 451, 537-538, 619-633).                             *)
THEOREM HooksAsConfigured == ServicesSpec => []TexturesAsConfigured
<1>1. ServicesInit => ImportsInv
  BY ImportsInit DEF ServicesInit
<1>2. [ServicesNext]_allVars => [Imp!Next]_(Imp!vars)
  BY DEF ServicesNext, allVars, importVars, Imp!vars, Imp!gl
<1>3. ImportsInv /\ [ServicesNext]_allVars => ImportsInv'
  BY <1>2, ImportsStep
<1>4. ImportsInv => TexturesAsConfigured
  BY DEF ImportsInv, TexturesAsConfigured
<1> QED
  BY <1>1, <1>3, <1>4, PTL DEF ServicesSpec

-----------------------------------------------------------------------------
(* The functions on memory.                                                *)

(* The inductive invariant of the memory.                                  *)
MemoryInv == Mem!TypeOK /\ Mem!AsPromised

(* The invariant holds at first.                                           *)
LEMMA MemoryInit == Mem!Init => MemoryInv
<1>1. 0 \in 0 .. Byte - 1
  BY MemoryConstants DEF Mem!MemoryAssumption
<1> QED
  BY <1>1 DEF Mem!Init, MemoryInv, Mem!TypeOK, Mem!AsPromised

(* Filling writes bytes.                                                   *)
LEMMA FillingKeepsBytes ==
  ASSUME NEW m \in [Mem!Addresses -> 0 .. Byte - 1], NEW c \in Nat, NEW d \in Int, NEW n \in Int
  PROVE  Mem!Filled(m, d, c, n) \in [Mem!Addresses -> 0 .. Byte - 1]
<1>1. Byte \in Nat /\ Byte > 0
  BY MemoryConstants DEF Mem!MemoryAssumption
<1>2. c % Byte \in 0 .. Byte - 1
  BY <1>1
<1> QED
  BY <1>2 DEF Mem!Filled

(* Copying reads within the memory, and so writes bytes.                   *)
LEMMA MovingKeepsBytes ==
  ASSUME NEW m \in [Mem!Addresses -> 0 .. Byte - 1],
         NEW d \in Mem!Addresses, NEW s \in Mem!Addresses,
         NEW n \in Mem!Lengths(d) \intersect Mem!Lengths(s)
  PROVE  Mem!Moved(m, d, s, n) \in [Mem!Addresses -> 0 .. Byte - 1]
<1>1. \A a \in Mem!Addresses : a \in d .. d + n - 1 => s + (a - d) \in Mem!Addresses
  BY MemoryConstants DEF Mem!MemoryAssumption, Mem!Addresses, Mem!Lengths
<1> QED
  BY <1>1 DEF Mem!Moved

(* Every call does what the function it means promises.                    *)
LEMMA MemoryStep ==
  ASSUME MemoryInv, [Mem!Next]_(Mem!vars)
  PROVE  MemoryInv'
<1>1. mem \in [Mem!Addresses -> 0 .. Byte - 1] /\ mem = promised
  BY DEF MemoryInv, Mem!TypeOK, Mem!AsPromised
<1>2. SUFFICES mem' \in [Mem!Addresses -> 0 .. Byte - 1] /\ mem' = promised'
  BY DEF MemoryInv, Mem!TypeOK, Mem!AsPromised
<1>3. CASE Mem!Fill
  <2>1. PICK d \in Mem!Addresses :
          \E n \in Mem!Lengths(d), c \in Chars :
            /\ \/ mem' = Mem!Result("memset", <<d, c, n>>)
               \/ mem' = Mem!Result("__aeabi_memset", <<d, n, c>>)
            /\ promised' = Mem!Filled(promised, d, c, n)
    BY <1>3 DEF Mem!Fill
  <2>2. PICK n \in Mem!Lengths(d), c \in Chars :
          /\ \/ mem' = Mem!Result("memset", <<d, c, n>>)
             \/ mem' = Mem!Result("__aeabi_memset", <<d, n, c>>)
          /\ promised' = Mem!Filled(promised, d, c, n)
    BY <2>1
  <2>3. /\ Mem!Result("memset", <<d, c, n>>) = Mem!Filled(mem, d, c, n)
        /\ Mem!Result("__aeabi_memset", <<d, n, c>>) = Mem!Filled(mem, d, c, n)
    BY DEF Mem!Result, Mem!sceClibMemset, Mem!sceClibMemset2
  <2>4. c \in Nat /\ d \in Int /\ n \in Int
    BY MemoryConstants DEF Mem!MemoryAssumption, Mem!Addresses, Mem!Lengths
  <2> QED
    BY <1>1, <2>2, <2>3, <2>4, FillingKeepsBytes
<1>4. CASE Mem!Clear
  <2>1. PICK d \in Mem!Addresses :
          \E n \in Mem!Lengths(d), symbol \in {"__aeabi_memclr", "__aeabi_memclr8"} :
            /\ mem' = Mem!Result(symbol, <<d, n>>)
            /\ promised' = Mem!Filled(promised, d, 0, n)
    BY <1>4 DEF Mem!Clear
  <2>2. PICK n \in Mem!Lengths(d), symbol \in {"__aeabi_memclr", "__aeabi_memclr8"} :
          /\ mem' = Mem!Result(symbol, <<d, n>>)
          /\ promised' = Mem!Filled(promised, d, 0, n)
    BY <2>1
  <2>3. Mem!Result(symbol, <<d, n>>) = Mem!Filled(mem, d, 0, n)
    BY DEF Mem!Result, Mem!sceClibMemset, Mem!sceClibMemclr
  <2>4. d \in Int /\ n \in Int
    BY MemoryConstants DEF Mem!MemoryAssumption, Mem!Addresses, Mem!Lengths
  <2> QED
    BY <1>1, <2>2, <2>3, <2>4, FillingKeepsBytes
<1>5. CASE Mem!Copy
  <2>1. PICK d \in Mem!Addresses, s \in Mem!Addresses :
          \E n \in Mem!Lengths(d) \intersect Mem!Lengths(s),
             symbol \in {"memmove", "__aeabi_memmove", "memcpy", "__aeabi_memcpy"} :
            /\ mem' = Mem!Result(symbol, <<d, s, n>>)
            /\ promised' = Mem!Moved(promised, d, s, n)
    BY <1>5 DEF Mem!Copy
  <2>2. PICK n \in Mem!Lengths(d) \intersect Mem!Lengths(s),
             symbol \in {"memmove", "__aeabi_memmove", "memcpy", "__aeabi_memcpy"} :
          /\ mem' = Mem!Result(symbol, <<d, s, n>>)
          /\ promised' = Mem!Moved(promised, d, s, n)
    BY <2>1
  <2>3. Mem!Result(symbol, <<d, s, n>>) = Mem!Moved(mem, d, s, n)
    BY DEF Mem!Result, Mem!sceClibMemcpy, Mem!sceClibMemmove
  <2> QED
    BY <1>1, <2>2, <2>3, MovingKeepsBytes
<1>6. CASE UNCHANGED Mem!vars
  BY <1>1, <1>6 DEF Mem!vars
<1> QED
  BY <1>3, <1>4, <1>5, <1>6 DEF Mem!Next

(* For any number of objects alive, and memory and bytes of any size: an   *)
(* object is handed to a function of another library, one that looks at    *)
(* it, exactly when the game prints to a file it opened or to a stream of  *)
(* __sF (fprintf is newlib's, imports.c:464), and the memory is what C and *)
(* the ARM ABI promise (imports.c:326-633).                                *)
THEOREM ArgumentsFit == ServicesSpec => []TakesWhatItIsGiven
<1>1. ServicesInit => ImportsInv /\ MemoryInv
  BY ImportsInit, MemoryInit DEF ServicesInit
<1>2. [ServicesNext]_allVars => [Imp!Next]_(Imp!vars) /\ [Mem!Next]_(Mem!vars)
  BY DEF ServicesNext, allVars, importVars, Imp!vars, Imp!gl, memoryVars, Mem!vars
<1>3. ImportsInv /\ MemoryInv /\ [ServicesNext]_allVars => (ImportsInv /\ MemoryInv)'
  BY <1>2, ImportsStep, MemoryStep
<1>4. ImportsInv /\ MemoryInv => TakesWhatItIsGiven
  BY DEF ImportsInv, MemoryInv, TakesWhatItIsGiven
<1> QED
  BY <1>1, <1>3, <1>4, PTL DEF ServicesSpec

-----------------------------------------------------------------------------
(* patch_game and the constructors.                                        *)

(* The variables of the device.                                            *)
DeviceNames == {"deviceChip", "deviceForm", "definedDevice"}

(* The steps of patch_game under the settings.                             *)
Wanted ==
  {Gam!Hook("others"), Gam!Hook("AND_SystemInitialize")}
    \union {Gam!FindAddr(p) : p \in DeviceNames}
    \union (IF crouch THEN {Gam!FindAddr("sm_control"), Gam!FindAddr("getButton"),
                            Gam!Hook("readCrouch")} ELSE {})
    \union (IF mod THEN {Gam!FindAddr("unloadArchives"), Gam!FindAddr("loadArchives"),
                         Gam!FindAddr("enablePriorityArchive"),
                         Gam!Hook("setFileSystemRoot")} ELSE {})

(* A step that was done.                                                   *)
Done(step) == \E k \in 1 .. at : Gam!Steps[k] = step

(* What was written to the symbols that are defined, that nothing else     *)
(* was written, and that the hook of an undefined function is at text_base. *)
WrittenSoFar ==
  /\ \A name \in Gam!Hooked :
       Gam!Defined(name) =>
         memory[Gam!so_find_addr(name)] =
           IF Done(Gam!Hook(name)) THEN name ELSE Gam!Own
  /\ \A p \in Gam!Pointers :
       Gam!Defined(p) => memory[Gam!so_find_addr(p)] \in Gam!Meant(p)
  /\ \A a \in Gam!Addresses :
       (\A name \in Gam!Names : Gam!Places(name) # {} => a # Gam!so_find_addr(name)) =>
         memory[a] = Gam!Own
  /\ (\E name \in Gam!Hooked : Done(Gam!Hook(name)) /\ Gam!so_find_addr(name) = 0) =>
       memory[0] # Gam!Own

(* The invariant of patch_game: a pointer is set when its step is done,    *)
(* and to what was found; what was written is the name of a hook that was  *)
(* done, or the value of a device variable.                                *)
PatchInv ==
  /\ at \in 0 .. Len(Gam!Steps)
  /\ Gam!Running => at = Len(Gam!Steps)
  /\ \A p \in Gam!Pointers :
       pointer[p] = IF Done(Gam!FindAddr(p)) THEN Gam!so_find_addr(p) ELSE Gam!Null
  /\ \A p \in Gam!Pointers : Done(Gam!FindAddr(p)) => Gam!Places(p) # {}
  /\ \A name \in Gam!Hooked : Done(Gam!Hook(name)) => Gam!Places(name) # {}
  /\ \A a \in Gam!Addresses :
       \/ memory[a] \in {Gam!Own, "1", "19", "27"}
       \/ \E name \in Gam!Hooked : memory[a] = name /\ Done(Gam!Hook(name))
  /\ WrittenSoFar

(* Where so_excute_init_array is.                                          *)
Position == [section |-> i, entry |-> j]

(* The invariant of the constructors: those before this place were called, *)
(* in their order.                                                         *)
CalledSoFar ==
  /\ \A k, l \in DOMAIN called : k < l => Gam!Before(called[k], called[l])
  /\ Gam!Range(called) = {c \in Gam!Constructors : Gam!Before(c, Position)}
  /\ progress \in {"patch", "fatal"} => i = 1 /\ j = 1
  /\ progress = "game" => i = Len(sections) + 1

(* The inductive invariant of the two.                                     *)
GamInv == Gam!TypeOK /\ PatchInv /\ CalledSoFar

(* so_find_addr finds the address of a symbol that is there.               *)
LEMMA SymbolFound ==
  ASSUME syms \in Tables, NEW name, Gam!Places(name) # {}
  PROVE  /\ Gam!so_find_addr(name) \in Gam!Addresses
         /\ \E k \in DOMAIN syms : syms[k].name = name /\ syms[k].value = Gam!so_find_addr(name)
<1> DEFINE Symbol == [name : Gam!Names, value : Gam!Addresses]
<1>1. syms \in Seq(Symbol)
  BY GameConstants DEF Gam!GameHooksAssumption
<1>2. /\ DOMAIN syms \subseteq Nat
      /\ \A k \in DOMAIN syms : syms[k].value \in Gam!Addresses
  <2> HIDE DEF Symbol
  <2>1. DOMAIN syms \subseteq Nat /\ \A k \in DOMAIN syms : syms[k] \in Symbol
    BY <1>1
  <2> QED
    BY <2>1 DEF Symbol
<1>3. Gam!Places(name) \subseteq DOMAIN syms
  BY DEF Gam!Places
<1>4. \E k \in Gam!Places(name) : \A l \in Gam!Places(name) : k <= l
  BY <1>2, <1>3, LeastNumber
<1>5. Gam!Min(Gam!Places(name)) \in Gam!Places(name)
  BY <1>4 DEF Gam!Min
<1> QED
  BY <1>2, <1>5 DEF Gam!Places, Gam!so_find_addr

(* A symbol that is defined is where no other is.                          *)
LEMMA PlacesApart ==
  ASSUME syms \in Tables,
         NEW m \in Gam!Names, NEW n \in Gam!Names, m # n,
         Gam!Defined(m), Gam!Places(n) # {}
  PROVE  Gam!so_find_addr(m) # Gam!so_find_addr(n)
<1>1. Gam!Places(m) # {} /\ Gam!so_find_addr(m) # 0
  BY DEF Gam!Defined
<1>2. PICK k \in DOMAIN syms : syms[k].name = m /\ syms[k].value = Gam!so_find_addr(m)
  BY <1>1, SymbolFound
<1>3. PICK l \in DOMAIN syms : syms[l].name = n /\ syms[l].value = Gam!so_find_addr(n)
  BY SymbolFound
<1> QED
  BY <1>1, <1>2, <1>3, GameConstants DEF Gam!GameHooksAssumption

(* S is what the sequence s is made of, which is no longer than n.         *)
Lists(s, S, n) ==
  s \in Seq(S) /\ S = {s[k] : k \in DOMAIN s} /\ Len(s) <= n

(* Two sequences in a row.                                                 *)
LEMMA JoinedLists ==
  ASSUME NEW s, NEW t, NEW S, NEW T, NEW m \in Nat, NEW n \in Nat,
         Lists(s, S, m), Lists(t, T, n)
  PROVE  Lists(s \o t, S \union T, m + n)
<1>1. s \in Seq(S) /\ t \in Seq(T) /\ Len(s) <= m /\ Len(t) <= n
  BY DEF Lists
<1>2. s \in Seq(S \union T) /\ t \in Seq(S \union T)
  BY <1>1
<1>3. /\ s \o t \in Seq(S \union T) /\ Len(s \o t) = Len(s) + Len(t)
      /\ DOMAIN s = 1 .. Len(s) /\ DOMAIN t = 1 .. Len(t)
      /\ DOMAIN (s \o t) = 1 .. (Len(s) + Len(t))
      /\ Len(s) \in Nat /\ Len(t) \in Nat
  BY <1>1, <1>2
<1>4. \A k \in DOMAIN s : k \in DOMAIN (s \o t) /\ (s \o t)[k] = s[k]
  BY <1>2, <1>3
<1>5. \A k \in DOMAIN t : Len(s) + k \in DOMAIN (s \o t) /\ (s \o t)[Len(s) + k] = t[k]
  BY <1>2, <1>3
<1>6. S \union T \subseteq {(s \o t)[k] : k \in DOMAIN (s \o t)}
  BY <1>4, <1>5 DEF Lists
<1>7. \A k \in DOMAIN (s \o t) : (s \o t)[k] \in S \union T
  BY <1>3
<1>8. {(s \o t)[k] : k \in DOMAIN (s \o t)} \subseteq S \union T
  BY <1>7
<1>9. S \union T = {(s \o t)[k] : k \in DOMAIN (s \o t)}
  BY <1>6, <1>8
<1>10. Len(s \o t) <= m + n
  BY <1>1, <1>3
<1> QED
  BY <1>3, <1>9, <1>10, Zenon DEF Lists

(* patch_game does the steps that are wanted, twelve at most.              *)
LEMMA StepsAre == Lists(Gam!Steps, Wanted, 12)
<1> DEFINE S1 == {Gam!Hook("others"), Gam!Hook("AND_SystemInitialize")}
           S2 == IF crouch THEN {Gam!FindAddr("sm_control"), Gam!FindAddr("getButton"),
                                 Gam!Hook("readCrouch")} ELSE {}
           S3 == IF mod THEN {Gam!FindAddr("unloadArchives"), Gam!FindAddr("loadArchives"),
                              Gam!FindAddr("enablePriorityArchive"),
                              Gam!Hook("setFileSystemRoot")} ELSE {}
           S4 == {Gam!FindAddr(p) : p \in DeviceNames}
           first == <<Gam!Hook("others"), Gam!Hook("AND_SystemInitialize")>>
<1>1. Lists(first, S1, 2)
  BY DEF Lists
<1>2. Lists(Gam!CrouchSteps, S2, 3)
  <2>1. CASE crouch
    BY <2>1 DEF Lists, Gam!CrouchSteps
  <2>2. CASE ~crouch
    BY <2>2 DEF Lists, Gam!CrouchSteps
  <2> QED
    BY <2>1, <2>2
<1>3. Lists(Gam!ModSteps, S3, 4)
  <2>1. CASE mod
    BY <2>1 DEF Lists, Gam!ModSteps
  <2>2. CASE ~mod
    BY <2>2 DEF Lists, Gam!ModSteps
  <2> QED
    BY <2>1, <2>2
<1>4. Lists(Gam!DeviceVars, S4, 3)
  <2>1. S4 = {Gam!FindAddr("deviceChip"), Gam!FindAddr("deviceForm"),
              Gam!FindAddr("definedDevice")}
    BY DEF DeviceNames
  <2> HIDE DEF S4
  <2> QED
    BY <2>1 DEF Lists, Gam!DeviceVars
<1> HIDE DEF S1, S2, S3, S4, first
<1> DEFINE T1 == first \o Gam!CrouchSteps
           T2 == T1 \o Gam!ModSteps
           W1 == S1 \union S2
           W2 == W1 \union S3
<1>5. Lists(T1, W1, 5)
  BY <1>1, <1>2, JoinedLists
<1> HIDE DEF T1, W1
<1>6. Lists(T2, W2, 9)
  BY <1>3, <1>5, JoinedLists
<1> HIDE DEF T2, W2
<1>7. Lists(T2 \o Gam!DeviceVars, W2 \union S4, 12)
  <2>1. Lists(T2 \o Gam!DeviceVars, W2 \union S4, 9 + 3)
    BY <1>4, <1>6, JoinedLists
  <2> QED
    BY <2>1
<1>8. Wanted = W2 \union S4
  BY DEF Wanted, S1, S2, S3, S4, W1, W2
<1>9. Gam!Steps = T2 \o Gam!DeviceVars
  BY DEF Gam!Steps, T1, T2, first
<1> QED
  BY <1>7, <1>8, <1>9, Zenon

(* Its steps have numbers, and are the wanted ones.                        *)
LEMMA StepNumbers ==
  /\ Len(Gam!Steps) \in 0 .. 12 /\ DOMAIN Gam!Steps = 1 .. Len(Gam!Steps)
  /\ Wanted = {Gam!Steps[k] : k \in DOMAIN Gam!Steps}
<1> HIDE DEF Gam!Steps, Wanted
<1>1. Gam!Steps \in Seq(Wanted) /\ Len(Gam!Steps) <= 12
  BY StepsAre DEF Lists
<1>2. Len(Gam!Steps) \in Nat /\ DOMAIN Gam!Steps = 1 .. Len(Gam!Steps)
  <2>1. Gam!Steps \in Seq(Wanted)
    BY <1>1
  <2> QED
    BY <2>1
<1>3. Len(Gam!Steps) \in 0 .. 12
  <2>1. \A n \in Nat : n <= 12 => n \in 0 .. 12
    OBVIOUS
  <2> QED
    BY <1>1, <1>2, <2>1, Zenon
<1>4. Wanted = {Gam!Steps[k] : k \in DOMAIN Gam!Steps}
  BY StepsAre DEF Lists
<1> QED
  BY <1>2, <1>3, <1>4, Zenon

(* A hook is of a function, a pointer to anything else.                    *)
LEMMA WantedNames ==
  /\ \A name : Gam!Hook(name) \in Wanted => name \in Gam!Hooked
  /\ \A name : Gam!FindAddr(name) \in Wanted => name \in Gam!Pointers
  /\ \A step \in Wanted : \/ step.does = "hook" /\ step = Gam!Hook(step.name)
                          \/ step.does = "find" /\ step = Gam!FindAddr(step.name)
BY DEF Wanted, DeviceNames, Gam!Hook, Gam!FindAddr, Gam!Hooked, Gam!Pointers

(* After the last step all wanted ones were done;                          *)
LEMMA AllDone ==
  ASSUME at = Len(Gam!Steps)
  PROVE  \A step : Done(step) <=> step \in Wanted
BY StepNumbers DEF Done

(* and before the first none.                                              *)
LEMMA NoneDone ==
  ASSUME at = 0
  PROVE  \A step : ~Done(step)
BY DEF Done

(* No pointer has the name of a function that is replaced.                 *)
LEMMA NamesApart == Gam!Pointers \intersect Gam!Hooked = {}
BY DEF Gam!Pointers, Gam!Hooked

(* A variable may keep its value, and a device variable may get the one it *)
(* is meant to.                                                            *)
LEMMA MeantFor ==
  /\ \A p \in Gam!Pointers : Gam!Own \in Gam!Meant(p)
  /\ "19" \in Gam!Meant("deviceChip") /\ "1" \in Gam!Meant("deviceForm")
  /\ "27" \in Gam!Meant("definedDevice")
<1>1. \A p \in DeviceNames : Gam!Own \in Gam!Meant(p)
  BY DEF Gam!Meant, DeviceNames
<1>2. \A p \in Gam!Pointers \ DeviceNames : Gam!Own \in Gam!Meant(p)
  BY DEF Gam!Meant, DeviceNames, Gam!Pointers
<1> QED
  BY <1>1, <1>2 DEF Gam!Meant

(* The constructors are the entries that are not 0 of the sections of      *)
(* constructors.                                                           *)
LEMMA ConstructorsAre ==
  ASSUME sections \in Sections
  PROVE  /\ Len(sections) \in Nat /\ DOMAIN sections = 1 .. Len(sections)
         /\ \A c : c \in Gam!Constructors <=>
                   /\ c = [section |-> c.section, entry |-> c.entry]
                   /\ c.section \in 1 .. Len(sections) /\ sections[c.section].init
                   /\ c.entry \in 1 .. Len(sections[c.section].entries)
                   /\ sections[c.section].entries[c.entry] # 0
         /\ \A k \in 1 .. Len(sections) :
              /\ Len(sections[k].entries) \in Nat
              /\ DOMAIN sections[k].entries = 1 .. Len(sections[k].entries)
<1> DEFINE Section == [init : BOOLEAN, entries : Seq(Nat)]
<1>1. sections \in Seq(Section)
  BY GameConstants DEF Gam!GameHooksAssumption
<1>2. /\ Len(sections) \in Nat /\ DOMAIN sections = 1 .. Len(sections)
      /\ \A k \in 1 .. Len(sections) : sections[k] \in Section
  <2> HIDE DEF Section
  <2> QED
    BY <1>1
<1>3. \A k \in 1 .. Len(sections) : sections[k].entries \in Seq(Nat)
  BY <1>2
<1>4. \A k \in 1 .. Len(sections) :
        /\ Len(sections[k].entries) \in Nat
        /\ DOMAIN sections[k].entries = 1 .. Len(sections[k].entries)
  BY <1>3
<1>5. ASSUME NEW c
      PROVE  c \in Gam!Constructors <=>
               /\ c = [section |-> c.section, entry |-> c.entry]
               /\ c.section \in 1 .. Len(sections) /\ sections[c.section].init
               /\ c.entry \in 1 .. Len(sections[c.section].entries)
               /\ sections[c.section].entries[c.entry] # 0
  BY <1>2, <1>4 DEF Gam!Constructors
<1> QED
  BY <1>2, <1>4, <1>5

(* The invariant holds at first.                                           *)
LEMMA GamInit == Gam!Init => GamInv
<1> SUFFICES ASSUME Gam!Init PROVE GamInv
  OBVIOUS
<1>1. /\ syms \in Tables /\ sections \in Sections /\ progress = "patch" /\ at = 0
      /\ crouch \in BOOLEAN /\ mod \in BOOLEAN
      /\ pointer = [p \in Gam!Pointers |-> Gam!Null]
      /\ memory = [a \in Gam!Addresses |-> Gam!Own]
      /\ i = 1 /\ j = 1 /\ called = <<>>
  BY DEF Gam!Init
<1>2. Len(sections) \in Nat
  BY <1>1, ConstructorsAre
<1>3. Gam!TypeOK
  BY <1>1, <1>2 DEF Gam!TypeOK
<1>4. PatchInv
  <2>1. WrittenSoFar
    <3>1. \A name \in Gam!Names :
            Gam!Defined(name) => memory[Gam!so_find_addr(name)] = Gam!Own
      BY <1>1, SymbolFound DEF Gam!Defined
    <3> QED
      BY <1>1, <3>1, MeantFor, NoneDone DEF WrittenSoFar, Gam!Names
  <2>2. \A p \in Gam!Pointers :
          pointer[p] = IF Done(Gam!FindAddr(p)) THEN Gam!so_find_addr(p) ELSE Gam!Null
    BY <1>1, NoneDone
  <2>3. at \in 0 .. Len(Gam!Steps) /\ ~Gam!Running
    BY <1>1, StepNumbers DEF Gam!Running
  <2>4. \A a \in Gam!Addresses : memory[a] = Gam!Own
    BY <1>1
  <2>5. \A step : ~Done(step)
    BY <1>1, NoneDone
  <2> QED
    BY <2>1, <2>2, <2>3, <2>4, <2>5 DEF PatchInv
<1>5. CalledSoFar
  <2>1. \A c \in Gam!Constructors : c.section \in Nat \ {0} /\ c.entry \in Nat \ {0}
    BY <1>1, ConstructorsAre
  <2>2. \A c \in Gam!Constructors : ~Gam!Before(c, Position)
    BY <1>1, <2>1 DEF Gam!Before, Position
  <2> QED
    BY <1>1, <2>2 DEF CalledSoFar, Gam!Range
<1> QED
  BY <1>3, <1>4, <1>5 DEF GamInv

(* What depends on the library and the settings alone does not change.     *)
LEMMA PatchesStay ==
  ASSUME UNCHANGED <<syms, crouch, mod>>
  PROVE  /\ Gam!Steps' = Gam!Steps /\ Wanted' = Wanted
         /\ \A name : /\ Gam!Places(name)' = Gam!Places(name)
                      /\ Gam!so_find_addr(name)' = Gam!so_find_addr(name)
                      /\ Gam!Meant(name)' = Gam!Meant(name)
                      /\ Gam!Defined(name)' <=> Gam!Defined(name)
BY DEF Gam!Steps, Gam!CrouchSteps, Gam!ModSteps, Wanted, Gam!Places, Gam!so_find_addr,
       Gam!Meant, Gam!Defined

(* Without a step nothing more is done.                                    *)
LEMMA DoneStays ==
  ASSUME UNCHANGED <<syms, crouch, mod, at>>
  PROVE  \A step : Done(step)' <=> Done(step)
BY PatchesStay DEF Done

(* A step is done.                                                         *)
LEMMA DoneGrows ==
  ASSUME UNCHANGED <<syms, crouch, mod>>, at \in Nat, at' = at + 1
  PROVE  \A step : Done(step)' <=> (Done(step) \/ step = Gam!Steps[at + 1])
<1>1. Gam!Steps' = Gam!Steps
  BY PatchesStay
<1>2. \A k \in 1 .. at + 1 : k \in 1 .. at \/ k = at + 1
  OBVIOUS
<1>3. at + 1 \in 1 .. at + 1 /\ 1 .. at \subseteq 1 .. at + 1
  OBVIOUS
<1> QED
  BY <1>1, <1>2, <1>3 DEF Done

(* A step of patch_game writes a hook or sets a pointer.                   *)
LEMMA PatchKeepsInv ==
  ASSUME Gam!TypeOK, PatchInv, Gam!Patch
  PROVE  Gam!TypeOK' /\ PatchInv'
<1> DEFINE step == Gam!Steps[at + 1]
           name == step.name
           addr == Gam!so_find_addr(name)
<1>1. /\ progress = "patch" /\ at < Len(Gam!Steps) /\ at' = at + 1
      /\ Gam!Places(name) # {}
      /\ UNCHANGED <<syms, sections, crouch, mod, progress, i, j, called>>
  BY DEF Gam!Patch, Gam!loopVars
<1>2. IF step.does = "hook"
      THEN memory' = [memory EXCEPT ![addr] = name] /\ pointer' = pointer
      ELSE pointer' = [pointer EXCEPT ![name] = addr] /\ memory' = memory
  BY DEF Gam!Patch
<1>3. /\ syms \in Tables /\ at \in Nat /\ Len(Gam!Steps) \in 0 .. 12
      /\ pointer \in [Gam!Pointers -> Gam!Addresses \union {Gam!Null}]
      /\ memory \in [Gam!Addresses -> Gam!Names \union {Gam!Own, "1", "19", "27"}]
  <2>1. at \in 0 .. 12
    BY DEF Gam!TypeOK
  <2>2. at \in Nat
    BY <2>1
  <2> QED
    BY <2>2, StepNumbers, Zenon DEF Gam!TypeOK
<1>4. step \in Wanted
  <2>1. at + 1 \in DOMAIN Gam!Steps
    BY <1>1, <1>3, StepNumbers
  <2> QED
    BY <2>1, StepNumbers
<1>5. addr \in Gam!Addresses
  BY <1>1, <1>3, SymbolFound
<1>6. at' \in 0 .. Len(Gam!Steps) /\ at' \in 0 .. 12
  BY <1>1, <1>3
<1>7. /\ Gam!Steps' = Gam!Steps /\ \A n : (Gam!Defined(n)' <=> Gam!Defined(n))
      /\ \A n : Gam!Places(n)' = Gam!Places(n)
      /\ \A n : /\ Gam!so_find_addr(n)' = Gam!so_find_addr(n)
                /\ Gam!Meant(n)' = Gam!Meant(n)
      /\ \A s : Done(s)' <=> (Done(s) \/ s = step)
  BY <1>1, <1>3, PatchesStay, DoneGrows
<1> HIDE DEF addr
<1>8. CASE step.does = "hook"
  <2>1. step = Gam!Hook(name) /\ name \in Gam!Hooked
    BY <1>4, <1>8, WantedNames
  <2>2. memory' = [memory EXCEPT ![addr] = name] /\ pointer' = pointer
    BY <1>2, <1>8
  <2>3. /\ \A n : Gam!FindAddr(n) # step
        /\ \A n : Gam!Hook(n) = step <=> n = name
    BY <2>1 DEF Gam!FindAddr, Gam!Hook
  <2> HIDE DEF step, name
  <2>4. memory' \in [Gam!Addresses -> Gam!Names \union {Gam!Own, "1", "19", "27"}]
    BY <1>3, <1>5, <2>1, <2>2 DEF Gam!Names
  <2>5. Gam!TypeOK'
    BY <1>1, <1>6, <2>2, <2>4 DEF Gam!TypeOK
  <2>6. WrittenSoFar'
    <3>1. WrittenSoFar /\ name \in Gam!Names /\ 0 \in Gam!Addresses
      BY <2>1, GameConstants DEF PatchInv, Gam!Names, Gam!Addresses, Gam!GameHooksAssumption
    <3>2. \A n \in Gam!Names :
            Gam!Defined(n) => /\ Gam!so_find_addr(n) \in Gam!Addresses
                              /\ Gam!so_find_addr(n) = addr => n = name
      <4> TAKE n \in Gam!Names
      <4> HAVE Gam!Defined(n)
      <4>1. Gam!so_find_addr(n) \in Gam!Addresses
        BY <1>3, SymbolFound DEF Gam!Defined
      <4> QED
        BY <1>1, <1>3, <3>1, <4>1, PlacesApart DEF addr
    <3>3. \A a \in Gam!Addresses : memory'[a] = IF a = addr THEN name ELSE memory[a]
      BY <1>3, <2>2
    <3>4. \A n \in Gam!Hooked :
            Gam!Defined(n) =>
              memory'[Gam!so_find_addr(n)] = IF Done(Gam!Hook(n))' THEN n ELSE Gam!Own
      BY <1>5, <1>7, <2>3, <3>1, <3>2, <3>3 DEF WrittenSoFar, Gam!Names, addr
    <3>5. \A p \in Gam!Pointers :
            Gam!Defined(p) => memory'[Gam!so_find_addr(p)] \in Gam!Meant(p)
      BY <2>1, <3>1, <3>2, <3>3, NamesApart DEF WrittenSoFar, Gam!Names
    <3>6. \A a \in Gam!Addresses :
            (\A n \in Gam!Names : Gam!Places(n) # {} => a # Gam!so_find_addr(n)) =>
              memory'[a] = Gam!Own
      BY <1>1, <3>1, <3>3 DEF WrittenSoFar, addr
    <3>7. ASSUME NEW n \in Gam!Hooked, Done(Gam!Hook(n))', Gam!so_find_addr(n) = 0
          PROVE  memory'[0] # Gam!Own
      <4>1. name # Gam!Own
        BY <2>1 DEF Gam!Hooked, Gam!Own
      <4>2. CASE addr = 0
        BY <3>1, <3>3, <4>1, <4>2
      <4>3. CASE addr # 0
        <5>1. Done(Gam!Hook(n))
          BY <1>7, <2>3, <3>7, <4>3 DEF addr
        <5> QED
          BY <3>1, <3>3, <3>7, <4>3, <5>1 DEF WrittenSoFar
      <4> QED
        BY <4>2, <4>3
    <3> QED
      BY <1>7, <3>4, <3>5, <3>6, <3>7 DEF WrittenSoFar
  <2>7. \A p \in Gam!Pointers :
          pointer'[p] = IF Done(Gam!FindAddr(p))' THEN Gam!so_find_addr(p) ELSE Gam!Null
    BY <1>7, <2>2, <2>3 DEF PatchInv
  <2>8. \A a \in Gam!Addresses :
          \/ memory'[a] \in {Gam!Own, "1", "19", "27"}
          \/ \E n \in Gam!Hooked : memory'[a] = n /\ Done(Gam!Hook(n))'
    <3>1. \A a \in Gam!Addresses : memory'[a] = IF a = addr THEN name ELSE memory[a]
      BY <1>3, <2>2
    <3> QED
      BY <1>7, <2>1, <2>3, <3>1 DEF PatchInv
  <2>9. ~Gam!Running'
    BY <1>1 DEF Gam!Running
  <2>10. /\ \A p \in Gam!Pointers : Done(Gam!FindAddr(p))' => Gam!Places(p)' # {}
         /\ \A n \in Gam!Hooked : Done(Gam!Hook(n))' => Gam!Places(n)' # {}
    BY <1>1, <1>7, <2>3 DEF PatchInv
  <2> QED
    BY <1>6, <1>7, <2>5, <2>6, <2>7, <2>8, <2>9, <2>10 DEF PatchInv
<1>9. CASE step.does # "hook"
  <2>1. step = Gam!FindAddr(name) /\ name \in Gam!Pointers
    BY <1>4, <1>9, WantedNames
  <2>2. pointer' = [pointer EXCEPT ![name] = addr] /\ memory' = memory
    BY <1>2, <1>9
  <2>3. /\ \A n : Gam!Hook(n) # step
        /\ \A n : Gam!FindAddr(n) = step <=> n = name
    BY <2>1 DEF Gam!FindAddr, Gam!Hook
  <2> HIDE DEF step, name
  <2>4. pointer' \in [Gam!Pointers -> Gam!Addresses \union {Gam!Null}]
    BY <1>3, <1>5, <2>2
  <2>5. Gam!TypeOK'
    BY <1>1, <1>6, <2>2, <2>4 DEF Gam!TypeOK
  <2>6. WrittenSoFar'
    BY <1>7, <2>2, <2>3 DEF PatchInv, WrittenSoFar
  <2>7. \A p \in Gam!Pointers :
          pointer'[p] = IF Done(Gam!FindAddr(p))' THEN Gam!so_find_addr(p) ELSE Gam!Null
    BY <1>3, <1>7, <2>2, <2>3 DEF PatchInv, addr
  <2>8. \A a \in Gam!Addresses :
          \/ memory'[a] \in {Gam!Own, "1", "19", "27"}
          \/ \E n \in Gam!Hooked : memory'[a] = n /\ Done(Gam!Hook(n))'
    BY <1>7, <2>2 DEF PatchInv
  <2>9. ~Gam!Running'
    BY <1>1 DEF Gam!Running
  <2>10. /\ \A p \in Gam!Pointers : Done(Gam!FindAddr(p))' => Gam!Places(p)' # {}
         /\ \A n \in Gam!Hooked : Done(Gam!Hook(n))' => Gam!Places(n)' # {}
    BY <1>1, <1>7, <2>3 DEF PatchInv
  <2> QED
    BY <1>6, <1>7, <2>5, <2>6, <2>7, <2>8, <2>9, <2>10 DEF PatchInv
<1> QED
  BY <1>8, <1>9

(* What does not concern the constructors.                                 *)
LEMMA CalledStays ==
  ASSUME CalledSoFar, UNCHANGED <<sections, i, j, called>>,
         progress' \in {"patch", "fatal"} => progress \in {"patch", "fatal"},
         progress' = "game" => progress = "game"
  PROVE  CalledSoFar'
<1>1. /\ Gam!Constructors' = Gam!Constructors /\ Position' = Position
      /\ Gam!Range(called)' = Gam!Range(called)
  BY DEF Gam!Constructors, Position, Gam!Range
<1> QED
  BY <1>1 DEF CalledSoFar, Gam!Before

(* patch_game ends, or finds a symbol missing.                             *)
LEMMA MissingKeepsInv ==
  ASSUME GamInv, Gam!SymbolMissing \/ Gam!Patched
  PROVE  GamInv'
<1>1. /\ progress = "patch" /\ progress' \in {"fatal", "constructors"}
      /\ progress' = "constructors" => at = Len(Gam!Steps)
      /\ UNCHANGED <<syms, sections, crouch, mod, at, pointer, memory, i, j, called>>
  BY DEF Gam!SymbolMissing, Gam!Patched, Gam!loopVars
<1>2. Gam!TypeOK'
  BY <1>1 DEF GamInv, Gam!TypeOK
<1>3. /\ Gam!Steps' = Gam!Steps /\ \A n : (Gam!Defined(n)' <=> Gam!Defined(n))
      /\ \A n : Gam!Places(n)' = Gam!Places(n)
      /\ \A n : /\ Gam!so_find_addr(n)' = Gam!so_find_addr(n)
                /\ Gam!Meant(n)' = Gam!Meant(n)
      /\ \A s : Done(s)' <=> Done(s)
  BY <1>1, PatchesStay, DoneStays
<1>4. WrittenSoFar' <=> WrittenSoFar
  BY <1>1, <1>3 DEF WrittenSoFar
<1>5. PatchInv'
  BY <1>1, <1>3, <1>4 DEF GamInv, PatchInv, Gam!Running
<1>6. CalledSoFar'
  BY <1>1, CalledStays DEF GamInv
<1> QED
  BY <1>2, <1>5, <1>6 DEF GamInv

(* AND_SystemInitialize writes to the device variables, whose pointers are *)
(* set when it can be called.                                              *)
LEMMA SystemKeepsInv ==
  ASSUME GamInv, Gam!AND_SystemInitialize
  PROVE  GamInv'
<1> DEFINE form == Gam!so_find_addr("deviceForm")
           chip == Gam!so_find_addr("deviceChip")
           dev == Gam!so_find_addr("definedDevice")
<1>1. /\ memory' = [memory EXCEPT ![pointer["deviceForm"]] = "1",
                                  ![pointer["deviceChip"]] = "19",
                                  ![pointer["definedDevice"]] = "27"]
      /\ progress \in {"constructors", "game"}
      /\ UNCHANGED <<syms, sections, crouch, mod, progress, at, pointer, i, j, called>>
  BY DEF Gam!AND_SystemInitialize, Gam!loopVars
<1>2. /\ syms \in Tables
      /\ memory \in [Gam!Addresses -> Gam!Names \union {Gam!Own, "1", "19", "27"}]
  BY DEF GamInv, Gam!TypeOK
<1>3. /\ Gam!Steps' = Gam!Steps /\ \A n : (Gam!Defined(n)' <=> Gam!Defined(n))
      /\ \A n : Gam!Places(n)' = Gam!Places(n)
      /\ \A n : /\ Gam!so_find_addr(n)' = Gam!so_find_addr(n)
                /\ Gam!Meant(n)' = Gam!Meant(n)
      /\ \A s : Done(s)' <=> Done(s)
  BY <1>1, PatchesStay, DoneStays
<1>4. /\ pointer["deviceForm"] = form /\ pointer["deviceChip"] = chip
      /\ pointer["definedDevice"] = dev
      /\ \A p \in DeviceNames : Gam!Places(p) # {}
  <2>1. at = Len(Gam!Steps)
    BY <1>1 DEF GamInv, PatchInv, Gam!Running
  <2>2. \A p \in DeviceNames : p \in Gam!Pointers /\ Done(Gam!FindAddr(p))
    BY <2>1, AllDone DEF Wanted, DeviceNames, Gam!Pointers
  <2> QED
    BY <2>2 DEF GamInv, PatchInv, DeviceNames
<1> HIDE DEF form, chip, dev
<1>5. \A a \in Gam!Addresses :
        memory'[a] = IF a = dev THEN "27" ELSE IF a = chip THEN "19"
                     ELSE IF a = form THEN "1" ELSE memory[a]
  BY <1>1, <1>2, <1>4
<1>6. memory' \in [Gam!Addresses -> Gam!Names \union {Gam!Own, "1", "19", "27"}]
  BY <1>1, <1>2, <1>4
<1>7. Gam!TypeOK'
  BY <1>1, <1>6 DEF GamInv, Gam!TypeOK
<1>8. WrittenSoFar'
  <2>1. WrittenSoFar /\ 0 \in Gam!Addresses
    BY GameConstants DEF GamInv, PatchInv, Gam!Addresses, Gam!GameHooksAssumption
  <2>2. \A n \in Gam!Names : Gam!Defined(n) => Gam!so_find_addr(n) \in Gam!Addresses
    BY <1>2, SymbolFound DEF Gam!Defined
  <2>3. DeviceNames \subseteq Gam!Pointers /\ Gam!Names = Gam!Pointers \union Gam!Hooked
    BY DEF DeviceNames, Gam!Pointers, Gam!Names
  <2>4. \A n \in Gam!Names :
          Gam!Defined(n) => /\ Gam!so_find_addr(n) = form => n = "deviceForm"
                            /\ Gam!so_find_addr(n) = chip => n = "deviceChip"
                            /\ Gam!so_find_addr(n) = dev => n = "definedDevice"
    BY <1>2, <1>4, <2>3, PlacesApart DEF form, chip, dev, DeviceNames
  <2>5. \A n \in Gam!Hooked :
          Gam!Defined(n) => memory'[Gam!so_find_addr(n)] = memory[Gam!so_find_addr(n)]
    <3>1. \A n \in Gam!Hooked : n \notin DeviceNames
      BY <2>3, NamesApart
    <3> QED
      BY <1>5, <2>2, <2>3, <2>4, <3>1 DEF DeviceNames
  <2>6. \A p \in Gam!Pointers :
          Gam!Defined(p) => memory'[Gam!so_find_addr(p)] \in Gam!Meant(p)
    BY <1>5, <2>1, <2>2, <2>3, <2>4, MeantFor DEF WrittenSoFar
  <2>7. \A a \in Gam!Addresses :
          (\A n \in Gam!Names : Gam!Places(n) # {} => a # Gam!so_find_addr(n)) =>
            memory'[a] = Gam!Own
    BY <1>4, <1>5, <2>1, <2>3 DEF WrittenSoFar, DeviceNames, form, chip, dev
  <2>8. memory[0] # Gam!Own => memory'[0] # Gam!Own
    BY <1>5, <2>1 DEF Gam!Own
  <2> QED
    BY <1>3, <2>1, <2>5, <2>6, <2>7, <2>8 DEF WrittenSoFar
<1>9. \A a \in Gam!Addresses :
        \/ memory'[a] \in {Gam!Own, "1", "19", "27"}
        \/ \E n \in Gam!Hooked : memory'[a] = n /\ Done(Gam!Hook(n))
  BY <1>5 DEF GamInv, PatchInv
<1>10. PatchInv'
  BY <1>1, <1>3, <1>8, <1>9 DEF GamInv, PatchInv, Gam!Running
<1>11. CalledSoFar'
  BY <1>1, CalledStays DEF GamInv
<1> QED
  BY <1>7, <1>10, <1>11 DEF GamInv

(* The constructors leave the patches alone.                               *)
LEMMA PatchStays ==
  ASSUME Gam!TypeOK, PatchInv, progress \in {"constructors", "game"},
         progress' \in {"constructors", "game"},
         UNCHANGED <<syms, crouch, mod, at, pointer, memory>>
  PROVE  PatchInv'
<1>1. /\ Gam!Steps' = Gam!Steps /\ \A n : (Gam!Defined(n)' <=> Gam!Defined(n))
      /\ \A n : Gam!Places(n)' = Gam!Places(n)
      /\ \A n : /\ Gam!so_find_addr(n)' = Gam!so_find_addr(n)
                /\ Gam!Meant(n)' = Gam!Meant(n)
      /\ \A s : Done(s)' <=> Done(s)
  BY PatchesStay, DoneStays
<1>2. WrittenSoFar' <=> WrittenSoFar
  BY <1>1 DEF WrittenSoFar
<1> QED
  BY <1>1, <1>2 DEF PatchInv, Gam!Running

(* What is in a sequence that was appended to.                             *)
LEMMA RangeOfAppend ==
  ASSUME NEW S, NEW s \in Seq(S), NEW e \in S
  PROVE  Gam!Range(Append(s, e)) = Gam!Range(s) \union {e}
<1>1. /\ DOMAIN s = 1 .. Len(s) /\ Len(s) \in Nat
      /\ DOMAIN Append(s, e) = 1 .. Len(s) + 1
      /\ \A k \in 1 .. Len(s) : Append(s, e)[k] = s[k]
      /\ Append(s, e)[Len(s) + 1] = e
  OBVIOUS
<1>2. 1 .. Len(s) + 1 = 1 .. Len(s) \union {Len(s) + 1}
  BY <1>1
<1> QED
  BY <1>1, <1>2 DEF Gam!Range

(* A constructor is called, or an entry of 0 is passed over.               *)
LEMMA CallKeepsInv ==
  ASSUME GamInv, Gam!CallConstructor
  PROVE  GamInv'
<1> DEFINE Place == [section : Nat, entry : Nat]
<1>1. /\ progress = "constructors" /\ i <= Len(sections) /\ sections[i].init
      /\ j <= Len(sections[i].entries)
      /\ called' = IF sections[i].entries[j] # 0 THEN Append(called, Position) ELSE called
      /\ j' = j + 1
      /\ UNCHANGED <<syms, sections, crouch, mod, progress, at, pointer, memory, i>>
  BY DEF Gam!CallConstructor, Gam!InEntry, Gam!InSection, Position
<1>2. /\ sections \in Sections /\ i \in 1 .. Len(sections) /\ j \in Nat \ {0}
      /\ called \in Seq(Place)
  <2>1. /\ sections \in Sections /\ i \in 1 .. Len(sections) + 1 /\ j \in Nat \ {0}
        /\ called \in Seq([section : Nat, entry : Nat])
    BY DEF GamInv, Gam!TypeOK
  <2>2. Len(sections) \in Nat
    BY <2>1, ConstructorsAre
  <2> QED
    BY <1>1, <2>1, <2>2
<1>3. /\ Position \in Gam!Constructors <=> sections[i].entries[j] # 0
      /\ Position.section = i /\ Position.entry = j /\ Position \in Place
  <2>1. /\ Position.section = i /\ Position.entry = j /\ Position \in Place
        /\ Position = [section |-> Position.section, entry |-> Position.entry]
    BY <1>1, <1>2 DEF Position
  <2>2. j \in 1 .. Len(sections[i].entries)
    BY <1>1, <1>2, ConstructorsAre
  <2> HIDE DEF Place
  <2>3. Position \in Gam!Constructors <=> sections[i].entries[j] # 0
    BY <1>1, <1>2, <2>1, <2>2, ConstructorsAre
  <2> QED
    BY <2>1, <2>3
<1> HIDE DEF Place
<1>4. called' \in Seq(Place)
  <2>1. Append(called, Position) \in Seq(Place)
    BY <1>2, <1>3
  <2>2. called' = Append(called, Position) \/ called' = called
    BY <1>1
  <2> QED
    BY <1>2, <2>1, <2>2
<1>5. Gam!TypeOK'
  <2>1. j' \in Nat \ {0} /\ i' \in 1 .. Len(sections) + 1
    <3>1. i' = i /\ i \in 1 .. Len(sections) + 1
      BY <1>1 DEF GamInv, Gam!TypeOK
    <3> QED
      BY <1>1, <1>2, <3>1
  <2> QED
    BY <1>1, <1>4, <2>1 DEF GamInv, Gam!TypeOK, Place
<1>6. \A c \in Gam!Constructors :
        Gam!Before(c, Position') <=> (Gam!Before(c, Position) \/ c = Position)
  BY <1>1, <1>2, ConstructorsAre DEF Position, Gam!Before
<1>7. Gam!Range(called') = {c \in Gam!Constructors : Gam!Before(c, Position')}
  <2>1. Gam!Range(called) = {c \in Gam!Constructors : Gam!Before(c, Position)}
    BY DEF GamInv, CalledSoFar
  <2>2. CASE sections[i].entries[j] # 0
    <3>1. Gam!Range(called') = Gam!Range(called) \union {Position}
      <4>1. called' = Append(called, Position)
        BY <1>1, <2>2
      <4> QED
        BY <1>2, <1>3, <4>1, RangeOfAppend
    <3> QED
      BY <1>3, <1>6, <2>1, <2>2, <3>1
  <2>3. CASE sections[i].entries[j] = 0
    BY <1>1, <1>3, <1>6, <2>1, <2>3
  <2> QED
    BY <2>2, <2>3
<1>8. \A k, l \in DOMAIN called' : k < l => Gam!Before(called'[k], called'[l])
  <2>1. \A k, l \in DOMAIN called : k < l => Gam!Before(called[k], called[l])
    BY DEF GamInv, CalledSoFar
  <2>2. CASE sections[i].entries[j] # 0
    <3>1. /\ DOMAIN called = 1 .. Len(called) /\ Len(called) \in Nat
          /\ DOMAIN called' = 1 .. Len(called) + 1
          /\ \A k \in DOMAIN called : called'[k] = called[k]
          /\ called'[Len(called) + 1] = Position
      BY <1>1, <1>2, <1>3, <2>2
    <3>2. \A k \in DOMAIN called : Gam!Before(called[k], Position)
      BY DEF GamInv, CalledSoFar, Gam!Range
    <3> QED
      BY <2>1, <3>1, <3>2
  <2>3. CASE sections[i].entries[j] = 0
    BY <1>1, <2>1, <2>3
  <2> QED
    BY <2>2, <2>3
<1>9. CalledSoFar'
  <2>1. Gam!Constructors' = Gam!Constructors
    BY <1>1 DEF Gam!Constructors
  <2> QED
    BY <1>1, <1>7, <1>8, <2>1 DEF CalledSoFar, Gam!Before, Position, Gam!Range
<1>10. PatchInv'
  BY <1>1, PatchStays DEF GamInv
<1> QED
  BY <1>5, <1>9, <1>10 DEF GamInv

(* A section is done when none of its constructors are left.               *)
LEMMA NextSectionKeepsInv ==
  ASSUME GamInv, Gam!NextSection
  PROVE  GamInv'
<1>1. /\ progress = "constructors" /\ called' = called
      /\ i > Len(sections) \/ ~sections[i].init \/ j > Len(sections[i].entries)
      /\ IF i <= Len(sections) THEN i' = i + 1 /\ j' = 1 /\ progress' = progress
         ELSE progress' = "game" /\ i' = i /\ j' = j
      /\ UNCHANGED <<syms, sections, crouch, mod, at, pointer, memory>>
  <2>1. /\ i \in 1 .. Len(sections) + 1 /\ j \in Nat /\ sections \in Sections
    BY DEF GamInv, Gam!TypeOK
  <2>2. /\ Len(sections) \in Nat
        /\ \A k \in 1 .. Len(sections) : Len(sections[k].entries) \in Nat
    BY <2>1, ConstructorsAre
  <2> QED
    BY <2>1, <2>2 DEF Gam!NextSection, Gam!InEntry, Gam!InSection
<1>2. /\ sections \in Sections /\ i \in 1 .. Len(sections) + 1 /\ j \in Nat \ {0}
  BY DEF GamInv, Gam!TypeOK
<1>3. Len(sections) \in Nat
  BY <1>2, ConstructorsAre
<1>4. i' \in 1 .. Len(sections) + 1 /\ j' \in Nat \ {0} /\ progress' \in {"constructors", "game"}
  BY <1>1, <1>2, <1>3
<1>5. Gam!TypeOK'
  BY <1>1, <1>4 DEF GamInv, Gam!TypeOK
<1>6. \A c \in Gam!Constructors : Gam!Before(c, Position') <=> Gam!Before(c, Position)
  <2>1. CASE i <= Len(sections)
    BY <1>1, <1>2, <1>3, <2>1, ConstructorsAre DEF Position, Gam!Before
  <2>2. CASE ~(i <= Len(sections))
    BY <1>1, <2>2 DEF Position
  <2> QED
    BY <2>1, <2>2
<1>7. progress' = "game" => i' = Len(sections) + 1
  BY <1>1, <1>2, <1>3
<1>8. CalledSoFar'
  <2>1. Gam!Constructors' = Gam!Constructors /\ Gam!Range(called)' = Gam!Range(called)
    BY <1>1 DEF Gam!Constructors, Gam!Range
  <2> QED
    BY <1>1, <1>4, <1>6, <1>7, <2>1 DEF GamInv, CalledSoFar, Gam!Before, Position
<1>9. PatchInv'
  BY <1>1, <1>4, PatchStays DEF GamInv
<1> QED
  BY <1>5, <1>8, <1>9 DEF GamInv

(* Every step keeps the invariant.                                         *)
LEMMA GamStep ==
  ASSUME GamInv, [Gam!Next]_(Gam!vars)
  PROVE  GamInv'
<1>1. CASE Gam!Patch
  <2>1. UNCHANGED <<sections, i, j, called, progress>>
    BY <1>1 DEF Gam!Patch, Gam!loopVars
  <2> QED
    BY <1>1, <2>1, PatchKeepsInv, CalledStays DEF GamInv
<1>2. CASE UNCHANGED Gam!vars
  <2>1. UNCHANGED <<syms, sections, crouch, mod, progress, at, pointer, memory, i, j, called>>
    BY <1>2 DEF Gam!vars, Gam!loopVars
  <2>2. Gam!TypeOK'
    BY <2>1 DEF GamInv, Gam!TypeOK
  <2>3. /\ Gam!Steps' = Gam!Steps /\ \A n : (Gam!Defined(n)' <=> Gam!Defined(n))
        /\ \A n : Gam!Places(n)' = Gam!Places(n)
        /\ \A n : /\ Gam!so_find_addr(n)' = Gam!so_find_addr(n)
                  /\ Gam!Meant(n)' = Gam!Meant(n)
        /\ \A s : Done(s)' <=> Done(s)
    BY <2>1, PatchesStay, DoneStays
  <2>4. WrittenSoFar' <=> WrittenSoFar
    BY <2>1, <2>3 DEF WrittenSoFar
  <2>5. PatchInv'
    BY <2>1, <2>3, <2>4 DEF GamInv, PatchInv, Gam!Running
  <2> QED
    BY <2>1, <2>2, <2>5, CalledStays DEF GamInv
<1> QED
  BY <1>1, <1>2, MissingKeepsInv, SystemKeepsInv, CallKeepsInv, NextSectionKeepsInv
  DEF Gam!Next

(* The invariant implies the property.                                     *)
LEMMA GamInvSuffices ==
  ASSUME GamInv
  PROVE  PatchesLand
<1>1. Gam!ReplacementsAreReady
  <2> SUFFICES ASSUME Gam!Running, NEW a \in Gam!Addresses, NEW p \in Gam!Uses(memory[a])
               PROVE  pointer[p] # Gam!Null
    BY DEF Gam!ReplacementsAreReady
  <2>1. \A step : Done(step) <=> step \in Wanted
    BY AllDone DEF GamInv, PatchInv
  <2>2. \A n \in {Gam!Own, "1", "19", "27"} : Gam!Uses(n) = {}
    BY DEF Gam!Uses, Gam!Own
  <2>3. PICK n \in Gam!Hooked : memory[a] = n /\ Gam!Hook(n) \in Wanted
    BY <2>1, <2>2 DEF GamInv, PatchInv
  <2>4. p \in Gam!Pointers /\ Gam!FindAddr(p) \in Wanted
    <3>1. CASE n = "others"
      BY <2>3, <3>1 DEF Gam!Uses
    <3>2. CASE n = "AND_SystemInitialize"
      BY <2>3, <3>2 DEF Gam!Uses, Wanted, DeviceNames, Gam!Pointers
    <3>3. CASE n = "readCrouch"
      BY <2>3, <3>3 DEF Gam!Uses, Wanted, DeviceNames, Gam!Pointers, Gam!Hook, Gam!FindAddr
    <3>4. CASE n = "setFileSystemRoot"
      BY <2>3, <3>4 DEF Gam!Uses, Wanted, DeviceNames, Gam!Pointers, Gam!Hook, Gam!FindAddr
    <3> QED
      BY <3>1, <3>2, <3>3, <3>4 DEF Gam!Hooked
  <2>5. pointer[p] = Gam!so_find_addr(p) /\ Gam!Places(p) # {}
    BY <2>1, <2>4 DEF GamInv, PatchInv
  <2>6. Gam!so_find_addr(p) \in Gam!Addresses /\ Gam!Null \notin Gam!Addresses
    BY <2>5, SymbolFound DEF GamInv, Gam!TypeOK, Gam!Null, Gam!Addresses
  <2> QED
    BY <2>5, <2>6
<1>2. Gam!WrittenWhereMeant
  <2> SUFFICES ASSUME Gam!Running
               PROVE  /\ \A n \in Gam!Names :
                           Gam!Defined(n) => memory[Gam!so_find_addr(n)] \in Gam!Meant(n)
                      /\ \A a \in Gam!Addresses :
                           (\A n \in Gam!Names : Gam!Places(n) # {} => a # Gam!so_find_addr(n)) =>
                             memory[a] = Gam!Own
                      /\ \A k \in DOMAIN Gam!Steps :
                           Gam!Steps[k].does = "hook" /\ ~Gam!Defined(Gam!Steps[k].name) =>
                             memory[0] # Gam!Own
    BY DEF Gam!WrittenWhereMeant
  <2>1. \A step : Done(step) <=> step \in Wanted
    BY AllDone DEF GamInv, PatchInv
  <2>2. WrittenSoFar
    BY DEF GamInv, PatchInv
  <2>3. \A n \in Gam!Hooked :
          (IF Gam!Hook(n) \in Wanted THEN n ELSE Gam!Own) \in Gam!Meant(n)
    <3>1. Gam!Hook("others") \in Wanted /\ Gam!Hook("AND_SystemInitialize") \in Wanted
      BY DEF Wanted
    <3>2. (Gam!Hook("readCrouch") \in Wanted) = crouch
      BY DEF GamInv, Gam!TypeOK, Wanted, DeviceNames, Gam!Hook, Gam!FindAddr
    <3>3. (Gam!Hook("setFileSystemRoot") \in Wanted) = mod
      BY DEF GamInv, Gam!TypeOK, Wanted, DeviceNames, Gam!Hook, Gam!FindAddr
    <3>4. /\ Gam!Meant("others") = {"others"}
          /\ Gam!Meant("AND_SystemInitialize") = {"AND_SystemInitialize"}
          /\ Gam!Meant("readCrouch") = IF crouch THEN {"readCrouch"} ELSE {Gam!Own}
          /\ Gam!Meant("setFileSystemRoot") = IF mod THEN {"setFileSystemRoot"} ELSE {Gam!Own}
      BY DEF Gam!Meant
    <3> QED
      BY <3>1, <3>2, <3>3, <3>4 DEF Gam!Hooked
  <2>4. ASSUME NEW k \in DOMAIN Gam!Steps, Gam!Steps[k].does = "hook",
               ~Gam!Defined(Gam!Steps[k].name)
        PROVE  memory[0] # Gam!Own
    <3> DEFINE name == Gam!Steps[k].name
    <3>1. Gam!Steps[k] \in Wanted /\ Gam!Steps[k] = Gam!Hook(name) /\ name \in Gam!Hooked
      BY <2>4, StepNumbers, WantedNames
    <3>2. Done(Gam!Hook(name)) /\ Gam!Places(name) # {}
      BY <2>1, <3>1 DEF GamInv, PatchInv
    <3> QED
      BY <2>2, <2>4, <3>1, <3>2 DEF WrittenSoFar, Gam!Defined
  <2> QED
    BY <2>1, <2>2, <2>3, <2>4 DEF WrittenSoFar, Gam!Names
<1>3. Gam!ConstructorsInOrder
  <2>1. /\ sections \in Sections /\ i \in 1 .. Len(sections) + 1 /\ j \in Nat \ {0}
        /\ Len(sections) \in Nat
    BY ConstructorsAre DEF GamInv, Gam!TypeOK
  <2>2. Gam!Range(called) = {c \in Gam!Constructors : Gam!Before(c, Position)}
    BY DEF GamInv, CalledSoFar
  <2>3. \A c \in Gam!Range(called), d \in Gam!Constructors :
          Gam!Before(d, c) => d \in Gam!Range(called)
    <3> SUFFICES ASSUME NEW c \in Gam!Constructors, NEW d \in Gam!Constructors,
                        Gam!Before(c, Position), Gam!Before(d, c)
                 PROVE  Gam!Before(d, Position)
      BY <2>2
    <3>1. /\ c.section \in Int /\ c.entry \in Int /\ d.section \in Int /\ d.entry \in Int
          /\ Position.section \in Int /\ Position.entry \in Int
      BY <2>1, ConstructorsAre DEF Position
    <3> QED
      BY <3>1 DEF Gam!Before
  <2>4. ASSUME progress = "game" PROVE Gam!Range(called) = Gam!Constructors
    <3>1. i = Len(sections) + 1
      BY <2>4 DEF GamInv, CalledSoFar
    <3>2. \A c \in Gam!Constructors : Gam!Before(c, Position)
      BY <2>1, <3>1, ConstructorsAre DEF Position, Gam!Before
    <3> QED
      BY <2>2, <3>2
  <2>5. /\ \A k, l \in DOMAIN called : k < l => Gam!Before(called[k], called[l])
        /\ Gam!Range(called) \subseteq Gam!Constructors
    BY <2>2 DEF GamInv, CalledSoFar
  <2> QED
    BY <2>3, <2>4, <2>5 DEF Gam!ConstructorsInOrder
<1> QED
  BY <1>1, <1>2, <1>3 DEF GamInv, PatchesLand

(* For any symbol table whose defined symbols are in different places, and *)
(* any sections: no replacement runs before its pointers are set, every    *)
(* function that is defined is replaced by what was meant for it and       *)
(* nothing else is written but text_base, by the hook of a function that   *)
(* is undefined, and the constructors are called once each and in order    *)
(* (hooks/game.c:348-437 and so_util.c:247-269).                           *)
THEOREM PatchesLandInPlace == ServicesSpec => []PatchesLand
<1>1. ServicesInit => GamInv
  BY GamInit DEF ServicesInit
<1>2. [ServicesNext]_allVars => [Gam!Next]_(Gam!vars)
  BY DEF ServicesNext, allVars, hookVars, Gam!vars, Gam!loopVars
<1>3. GamInv /\ [ServicesNext]_allVars => GamInv'
  BY <1>2, GamStep
<1>4. GamInv => PatchesLand
  BY GamInvSuffices
<1> QED
  BY <1>1, <1>3, <1>4, PTL DEF ServicesSpec

-----------------------------------------------------------------------------
(* Shaders.                                                                *)

(* The keywords that stand for an entry of an array, and which one.        *)
Keywords == {"MIPMAP", "SETFRAGCOLOR", "PREFIX", "ALPHAKILL"}
Taking(mip, color, alpha) ==
  [MIPMAP |-> mip, SETFRAGCOLOR |-> color, PREFIX |-> color, ALPHAKILL |-> alpha]

(* What is still to be replaced, what was replaced, and what a variant is  *)
(* made of.                                                                *)
ShaderInv ==
  /\ Shd!TypeOK
  /\ left \in Seq(DOMAIN Shd!Cg)
  /\ arrays["ALPHAKILL"] = Shd!alphaTestReplace
  /\ \A k \in DOMAIN Shd!Cg : (\A n \in DOMAIN left : left[n] # k) => arrays[k] = Shd!Cg[k]
  /\ Shd!Compiled =>
       /\ left = << >>
       /\ \E name \in DOMAIN Shd!Templates, mip \in 1 .. 3, color \in 1 .. 2, alpha \in 1 .. 2 :
            /\ choice = <<name, mip, color, alpha>>
            /\ shader = [k \in Shd!Templates[name].keywords |->
                           arrays[k][Taking(mip, color, alpha)[k]]]

(* What the templates have in common: what their text uses they declare or *)
(* have a keyword for, the keywords for the colour come together, and with *)
(* the alpha test come its reference and a colour to test.                 *)
Provides(t) ==
  /\ t.keywords \subseteq Keywords
  /\ t.body.lang = "Cg"
  /\ t.body.declares \subseteq {"Diffuse", "AlphaRef", "Lightmap", "ColorMult", "ColorAdd"}
  /\ \A u \in t.body.uses :
       \/ u \in t.body.declares
       \/ u = "TEX2D_MIPSAMPLE" /\ "MIPMAP" \in t.keywords
       \/ u = "gl_FragColor" /\ "SETFRAGCOLOR" \in t.keywords
  /\ "ALPHAKILL" \in t.keywords =>
       "AlphaRef" \in t.body.declares /\ "SETFRAGCOLOR" \in t.keywords
  /\ "SETFRAGCOLOR" \in t.keywords <=> "PREFIX" \in t.keywords
  /\ "PREFIX" \in t.keywords => "ColorAdd" \notin t.body.declares \union t.body.uses

(* Each of the nine templates does.                                        *)
LEMMA TemplatesProvide == \A name \in DOMAIN Shd!Templates : Provides(Shd!Templates[name])
<1> DEFINE T == Shd!Templates
<1>1. Provides(T.DefaultPixel) /\ Provides(T.DynamicPixel)
  BY DEF Shd!Templates, Shd!Template, Shd!Text, Provides, Keywords
<1>2. Provides(T.LightmapPixel)
  BY DEF Shd!Templates, Shd!Template, Shd!Text, Provides, Keywords
<1>3. Provides(T.SkinnedPixel)
  BY DEF Shd!Templates, Shd!Template, Shd!Text, Provides, Keywords
<1>4. Provides(T.ParticlePixel) /\ Provides(T.HighPassPixel) /\ Provides(T.RenderBloomPixel)
  BY DEF Shd!Templates, Shd!Template, Shd!Text, Provides, Keywords
<1>5. Provides(T.ScenePixel) /\ Provides(T.SceneBloomPixel)
  BY DEF Shd!Templates, Shd!Template, Shd!Text, Provides, Keywords
<1>6. DOMAIN T = {"DefaultPixel", "DynamicPixel", "LightmapPixel", "SkinnedPixel", "ParticlePixel",
                  "HighPassPixel", "RenderBloomPixel", "ScenePixel", "SceneBloomPixel"}
  BY DEF Shd!Templates
<1> QED
  BY <1>1, <1>2, <1>3, <1>4, <1>5, <1>6

(* The pieces that patch_opengl leaves in the arrays: what they declare,   *)
(* what they use, and that they are not GLSL.                              *)
LEMMA PiecesOf ==
  /\ \A m \in 1 .. 3 : Shd!cg_mipmapReplace[m] = Shd!Text("Cg", {"TEX2D_MIPSAMPLE"}, {})
  /\ Shd!cg_fragColorReplace[1] = Shd!Text("Cg", {"gl_FragColor"}, {})
  /\ Shd!cg_fragColorReplace[2] = Shd!Text("Cg", {"gl_FragColor"}, {"ColorAdd"})
  /\ Shd!cg_colorReplace[1] = Shd!Text("any", {}, {})
  /\ Shd!cg_colorReplace[2] = Shd!Text("Cg", {"ColorAdd"}, {})
  /\ Shd!alphaTestReplace[1] = Shd!Text("any", {}, {})
  /\ Shd!alphaTestReplace[2] = Shd!Text("any", {}, {"AlphaRef", "gl_FragColor"})
BY DEF Shd!cg_mipmapReplace, Shd!cg_fragColorReplace, Shd!cg_colorReplace,
       Shd!alphaTestReplace, Shd!Nothing

(* The arrays have the lengths of the game's, in GLSL and in Cg.           *)
LEMMA ArrayLengths ==
  /\ Len(Shd!cg_mipmapReplace) = 3 /\ Len(Shd!cg_fragColorReplace) = 2
  /\ Len(Shd!cg_colorReplace) = 2 /\ Len(Shd!alphaTestReplace) = 2
  /\ Len(Shd!Glsl(Shd!cg_mipmapReplace)) = 3 /\ Len(Shd!Glsl(Shd!cg_fragColorReplace)) = 2
  /\ Len(Shd!Glsl(Shd!cg_colorReplace)) = 2
<1>1. /\ Len(Shd!cg_mipmapReplace) = 3 /\ Len(Shd!cg_fragColorReplace) = 2
      /\ Len(Shd!cg_colorReplace) = 2 /\ Len(Shd!alphaTestReplace) = 2
  BY DEF Shd!cg_mipmapReplace, Shd!cg_fragColorReplace, Shd!cg_colorReplace, Shd!alphaTestReplace
<1>2. ASSUME NEW n \in Nat, NEW a, DOMAIN a = 1 .. n PROVE Len(Shd!Glsl(a)) = n
  BY <1>2 DEF Shd!Glsl
<1>3. /\ DOMAIN Shd!cg_mipmapReplace = 1 .. 3 /\ DOMAIN Shd!cg_fragColorReplace = 1 .. 2
      /\ DOMAIN Shd!cg_colorReplace = 1 .. 2
  BY DEF Shd!cg_mipmapReplace, Shd!cg_fragColorReplace, Shd!cg_colorReplace
<1> QED
  BY <1>1, <1>2, <1>3

(* Before patch_opengl the arrays hold what the game brought.              *)
LEMMA ShaderInit == Shd!Init => ShaderInv
<1> SUFFICES ASSUME Shd!Init PROVE ShaderInv
  OBVIOUS
<1>1. left = <<"MIPMAP", "SETFRAGCOLOR", "PREFIX">>
  BY DEF Shd!Init
<1>2. DOMAIN Shd!Cg = {"MIPMAP", "SETFRAGCOLOR", "PREFIX"} /\ left \in Seq(DOMAIN Shd!Cg)
  BY <1>1 DEF Shd!Cg
<1>3. \A k \in DOMAIN Shd!Cg : \E n \in DOMAIN left : left[n] = k
  <2>1. /\ 1 \in DOMAIN left /\ 2 \in DOMAIN left /\ 3 \in DOMAIN left
        /\ left[1] = "MIPMAP" /\ left[2] = "SETFRAGCOLOR" /\ left[3] = "PREFIX"
    BY <1>1
  <2> QED
    BY <1>2, <2>1
<1> QED
  BY <1>2, <1>3, ArrayLengths DEF Shd!Init, ShaderInv, Shd!TypeOK, Shd!Compiled

(* A memcpy puts one array right, and a variant is made when all are.      *)
LEMMA ShaderStep == ShaderInv /\ [Shd!Next]_shaderVars => ShaderInv'
<1> SUFFICES ASSUME ShaderInv, [Shd!Next]_shaderVars PROVE ShaderInv'
  OBVIOUS
<1>1. CASE Shd!patch_opengl
  <2>1. /\ left # << >> /\ left' = Tail(left) /\ ~Shd!Compiled /\ UNCHANGED <<shader, choice>>
        /\ arrays' = [arrays EXCEPT ![Head(left)] = Shd!Cg[Head(left)]]
    BY <1>1 DEF Shd!patch_opengl, ShaderInv
  <2>2. /\ left \in Seq(DOMAIN Shd!Cg) /\ Head(left) \in DOMAIN Shd!Cg
        /\ \A n \in DOMAIN left : left[n] = Head(left) \/ \E l \in DOMAIN left' : left'[l] = left[n]
        /\ left' \in Seq(DOMAIN Shd!Cg)
    <3>1. left \in Seq(DOMAIN Shd!Cg) /\ left # << >>
      BY <2>1 DEF ShaderInv
    <3>2. /\ Len(left') = Len(left) - 1 /\ \A l \in 1 .. Len(left') : left'[l] = left[l + 1]
          /\ Head(left) = left[1] /\ Head(left) \in DOMAIN Shd!Cg /\ left' \in Seq(DOMAIN Shd!Cg)
      BY <2>1, <3>1, HeadTailProperties
    <3>3. ASSUME NEW n \in 1 .. Len(left), n # 1 PROVE \E l \in 1 .. Len(left') : left'[l] = left[n]
      <4>1. n - 1 \in 1 .. Len(left') /\ left'[n - 1] = left[n]
        BY <3>1, <3>2, <3>3
      <4> QED
        BY <4>1
    <3>4. DOMAIN left = 1 .. Len(left) /\ DOMAIN left' = 1 .. Len(left')
      BY <3>1, <3>2
    <3> QED
      BY <3>1, <3>2, <3>3, <3>4
  <2>3. /\ DOMAIN Shd!Cg \subseteq DOMAIN arrays /\ "ALPHAKILL" \notin DOMAIN Shd!Cg
        /\ DOMAIN arrays = Keywords
        /\ \A k \in DOMAIN Shd!Cg : Len(Shd!Cg[k]) = Len(arrays[k])
    BY ArrayLengths DEF ShaderInv, Shd!TypeOK, Shd!Cg, Keywords
  <2>4. /\ DOMAIN arrays' = Keywords /\ arrays'[Head(left)] = Shd!Cg[Head(left)]
        /\ \A k \in Keywords \ {Head(left)} : arrays'[k] = arrays[k]
    BY <2>1, <2>2, <2>3
  <2>5. \A k \in Keywords : Len(arrays'[k]) = Len(arrays[k])
    BY <2>2, <2>3, <2>4
  <2>6. Shd!TypeOK'
    BY <2>3, <2>4, <2>5 DEF ShaderInv, Shd!TypeOK, Keywords
  <2>7. arrays'["ALPHAKILL"] = Shd!alphaTestReplace
    BY <2>2, <2>3, <2>4 DEF ShaderInv, Keywords
  <2>8. ASSUME NEW k \in DOMAIN Shd!Cg, \A n \in DOMAIN left' : left'[n] # k
        PROVE  arrays'[k] = Shd!Cg[k]
    BY <2>2, <2>3, <2>4, <2>8 DEF ShaderInv
  <2> QED
    BY <2>1, <2>2, <2>6, <2>7, <2>8 DEF ShaderInv, Shd!Compiled
<1>2. CASE \E name \in DOMAIN Shd!Templates, mip \in 1 .. 3, color \in 1 .. 2, alpha \in 1 .. 2 :
             Shd!Compile(name, mip, color, alpha)
  <2>1. PICK name \in DOMAIN Shd!Templates, mip \in 1 .. 3, color \in 1 .. 2, alpha \in 1 .. 2 :
          Shd!Compile(name, mip, color, alpha)
    BY <1>2
  <2>2. /\ left = << >> /\ UNCHANGED <<left, arrays>> /\ choice' = <<name, mip, color, alpha>>
        /\ shader' = [k \in Shd!Templates[name].keywords |-> arrays[k][Taking(mip, color, alpha)[k]]]
    BY <2>1 DEF Shd!Compile, Taking
  <2> QED
    BY <2>2 DEF ShaderInv, Shd!TypeOK, Shd!Compiled
<1>3. CASE UNCHANGED shaderVars
  BY <1>3 DEF shaderVars, ShaderInv, Shd!TypeOK, Shd!Compiled
<1> QED
  BY <1>1, <1>2, <1>3 DEF Shd!Next

(* A variant is its template's text and one piece for each keyword.        *)
LEMMA Variant ==
  ASSUME ShaderInv, Shd!Compiled,
         NEW name \in DOMAIN Shd!Templates,
         NEW mip \in 1 .. 3, NEW color \in 1 .. 2, NEW alpha \in 1 .. 2,
         choice = <<name, mip, color, alpha>>,
         shader = [k \in Shd!Templates[name].keywords |-> arrays[k][Taking(mip, color, alpha)[k]]]
  PROVE  /\ DOMAIN shader \subseteq Keywords
         /\ DOMAIN shader = Shd!Templates[name].keywords
         /\ Shd!Body = Shd!Templates[name].body
         /\ "MIPMAP" \in DOMAIN shader => shader["MIPMAP"] = Shd!Text("Cg", {"TEX2D_MIPSAMPLE"}, {})
         /\ "SETFRAGCOLOR" \in DOMAIN shader =>
              shader["SETFRAGCOLOR"] =
                Shd!Text("Cg", {"gl_FragColor"}, IF color = 2 THEN {"ColorAdd"} ELSE {})
         /\ "PREFIX" \in DOMAIN shader =>
              /\ shader["PREFIX"].declares = IF color = 2 THEN {"ColorAdd"} ELSE {}
              /\ shader["PREFIX"].uses = {} /\ shader["PREFIX"].lang # "GLSL"
         /\ "ALPHAKILL" \in DOMAIN shader =>
              /\ shader["ALPHAKILL"].declares = {} /\ shader["ALPHAKILL"].lang # "GLSL"
              /\ shader["ALPHAKILL"].uses \subseteq {"AlphaRef", "gl_FragColor"}
<1>1. /\ arrays["MIPMAP"] = Shd!cg_mipmapReplace /\ arrays["SETFRAGCOLOR"] = Shd!cg_fragColorReplace
      /\ arrays["PREFIX"] = Shd!cg_colorReplace /\ arrays["ALPHAKILL"] = Shd!alphaTestReplace
  BY DEF ShaderInv, Shd!Cg
<1>2. /\ Taking(mip, color, alpha)["MIPMAP"] = mip /\ Taking(mip, color, alpha)["SETFRAGCOLOR"] = color
      /\ Taking(mip, color, alpha)["PREFIX"] = color /\ Taking(mip, color, alpha)["ALPHAKILL"] = alpha
  BY DEF Taking
<1>3. DOMAIN shader = Shd!Templates[name].keywords /\ DOMAIN shader \subseteq Keywords
  BY TemplatesProvide DEF Provides
<1>4. Shd!Body = Shd!Templates[name].body
  BY DEF Shd!Body
<1>5. \A k \in DOMAIN shader : shader[k] = arrays[k][Taking(mip, color, alpha)[k]]
  BY <1>3
<1>6. (color = 1 \/ color = 2) /\ (alpha = 1 \/ alpha = 2)
  OBVIOUS
<1>7. "MIPMAP" \in DOMAIN shader => shader["MIPMAP"] = Shd!Text("Cg", {"TEX2D_MIPSAMPLE"}, {})
  BY <1>1, <1>2, <1>5, PiecesOf
<1>8. "SETFRAGCOLOR" \in DOMAIN shader =>
        shader["SETFRAGCOLOR"] =
          Shd!Text("Cg", {"gl_FragColor"}, IF color = 2 THEN {"ColorAdd"} ELSE {})
  BY <1>1, <1>2, <1>5, <1>6, PiecesOf
<1>9. "PREFIX" \in DOMAIN shader =>
        /\ shader["PREFIX"].declares = IF color = 2 THEN {"ColorAdd"} ELSE {}
        /\ shader["PREFIX"].uses = {} /\ shader["PREFIX"].lang # "GLSL"
  <2> SUFFICES ASSUME "PREFIX" \in DOMAIN shader
               PROVE  /\ shader["PREFIX"].declares = IF color = 2 THEN {"ColorAdd"} ELSE {}
                      /\ shader["PREFIX"].uses = {} /\ shader["PREFIX"].lang # "GLSL"
    OBVIOUS
  <2>1. shader["PREFIX"] = Shd!cg_colorReplace[color]
    BY <1>1, <1>2, <1>5
  <2>2. CASE color = 1
    BY <2>1, <2>2, PiecesOf DEF Shd!Text
  <2>3. CASE color = 2
    BY <2>1, <2>3, PiecesOf DEF Shd!Text
  <2> QED
    BY <1>6, <2>2, <2>3
<1>10. "ALPHAKILL" \in DOMAIN shader =>
         /\ shader["ALPHAKILL"].declares = {} /\ shader["ALPHAKILL"].lang # "GLSL"
         /\ shader["ALPHAKILL"].uses \subseteq {"AlphaRef", "gl_FragColor"}
  BY <1>1, <1>2, <1>5, <1>6, PiecesOf DEF Shd!Text
<1> QED
  BY <1>3, <1>4, <1>7, <1>8, <1>9, <1>10

(* A variant of a template that provides for its keywords is as it should  *)
(* be.                                                                     *)
LEMMA VariantIsSound ==
  ASSUME ShaderInv, Shd!Compiled
  PROVE  Shd!VariantsDeclareWhatTheyUse /\ Shd!VariantsAreCg /\ Shd!ColorIsAddedOnDemand
<1>1. PICK name \in DOMAIN Shd!Templates, mip \in 1 .. 3, color \in 1 .. 2, alpha \in 1 .. 2 :
        /\ choice = <<name, mip, color, alpha>>
        /\ shader = [k \in Shd!Templates[name].keywords |-> arrays[k][Taking(mip, color, alpha)[k]]]
  BY DEF ShaderInv
<1> DEFINE body == Shd!Templates[name].body
           pieces == {shader[k] : k \in DOMAIN shader} \union {body}
<1>2. /\ DOMAIN shader \subseteq Keywords /\ DOMAIN shader = Shd!Templates[name].keywords
      /\ Shd!Body = body
      /\ "MIPMAP" \in DOMAIN shader =>
           /\ shader["MIPMAP"].declares = {"TEX2D_MIPSAMPLE"} /\ shader["MIPMAP"].uses = {}
           /\ shader["MIPMAP"].lang # "GLSL"
      /\ "SETFRAGCOLOR" \in DOMAIN shader =>
           /\ shader["SETFRAGCOLOR"].declares = {"gl_FragColor"}
           /\ shader["SETFRAGCOLOR"].uses = IF color = 2 THEN {"ColorAdd"} ELSE {}
           /\ shader["SETFRAGCOLOR"].lang # "GLSL"
      /\ "PREFIX" \in DOMAIN shader =>
           /\ shader["PREFIX"].declares = IF color = 2 THEN {"ColorAdd"} ELSE {}
           /\ shader["PREFIX"].uses = {} /\ shader["PREFIX"].lang # "GLSL"
      /\ "ALPHAKILL" \in DOMAIN shader =>
           /\ shader["ALPHAKILL"].declares = {} /\ shader["ALPHAKILL"].lang # "GLSL"
           /\ shader["ALPHAKILL"].uses \subseteq {"AlphaRef", "gl_FragColor"}
  <2>1. /\ DOMAIN shader \subseteq Keywords /\ DOMAIN shader = Shd!Templates[name].keywords
        /\ Shd!Body = Shd!Templates[name].body
    BY <1>1, Variant
  <2>2. "MIPMAP" \in DOMAIN shader => shader["MIPMAP"] = Shd!Text("Cg", {"TEX2D_MIPSAMPLE"}, {})
    BY <1>1, Variant
  <2>3. "SETFRAGCOLOR" \in DOMAIN shader =>
          shader["SETFRAGCOLOR"] =
            Shd!Text("Cg", {"gl_FragColor"}, IF color = 2 THEN {"ColorAdd"} ELSE {})
    BY <1>1, Variant
  <2>4. /\ "PREFIX" \in DOMAIN shader =>
             /\ shader["PREFIX"].declares = IF color = 2 THEN {"ColorAdd"} ELSE {}
             /\ shader["PREFIX"].uses = {} /\ shader["PREFIX"].lang # "GLSL"
        /\ "ALPHAKILL" \in DOMAIN shader =>
             /\ shader["ALPHAKILL"].declares = {} /\ shader["ALPHAKILL"].lang # "GLSL"
             /\ shader["ALPHAKILL"].uses \subseteq {"AlphaRef", "gl_FragColor"}
    BY <1>1, Variant
  <2> QED
    BY <2>1, <2>2, <2>3, <2>4 DEF Shd!Text
<1>3. Provides(Shd!Templates[name])
  BY TemplatesProvide
<1>4. Shd!Pieces = pieces
  BY <1>2 DEF Shd!Pieces
<1>5. \A x \in Shd!Declared : \E p \in pieces : x \in p.declares
  BY <1>4 DEF Shd!Declared
<1>6. \A p \in pieces : p.declares \subseteq Shd!Declared /\ p.uses \subseteq Shd!Used
  BY <1>4 DEF Shd!Declared, Shd!Used
<1>7. \A x \in Shd!Used : \E p \in pieces : x \in p.uses
  BY <1>4 DEF Shd!Used
<1>8. ASSUME NEW p \in pieces, NEW x \in p.uses PROVE x \in Shd!Declared
  <2> HIDE DEF pieces
  <2>1. /\ body \in pieces /\ \A k \in DOMAIN shader : shader[k] \in pieces
        /\ p = body \/ \E k \in DOMAIN shader : p = shader[k]
    BY DEF pieces
  <2>2. /\ "SETFRAGCOLOR" \in DOMAIN shader => "gl_FragColor" \in Shd!Declared
        /\ "MIPMAP" \in DOMAIN shader => "TEX2D_MIPSAMPLE" \in Shd!Declared
        /\ "PREFIX" \in DOMAIN shader /\ color = 2 => "ColorAdd" \in Shd!Declared
        /\ body.declares \subseteq Shd!Declared
    BY <1>2, <1>6, <2>1
  <2>3. CASE p = body
    BY <1>2, <1>3, <1>8, <2>2, <2>3 DEF Provides
  <2>4. CASE \E k \in DOMAIN shader : p = shader[k]
    BY <1>2, <1>3, <1>8, <2>2, <2>4 DEF Provides, Keywords
  <2> QED
    BY <2>1, <2>3, <2>4
<1>9. Shd!Used \subseteq Shd!Declared
  BY <1>7, <1>8
<1>10. ASSUME NEW p \in pieces, NEW q \in pieces, p # q PROVE p.declares \intersect q.declares = {}
  <2>1. ASSUME NEW k \in DOMAIN shader, NEW l \in DOMAIN shader, k # l
        PROVE  shader[k].declares \intersect shader[l].declares = {}
    BY <1>2, <2>1 DEF Keywords
  <2>2. ASSUME NEW k \in DOMAIN shader PROVE shader[k].declares \intersect body.declares = {}
    <3>1. shader[k].declares \subseteq {"TEX2D_MIPSAMPLE", "gl_FragColor", "ColorAdd"}
      BY <1>2 DEF Keywords
    <3>2. "ColorAdd" \in shader[k].declares => "PREFIX" \in DOMAIN shader
      BY <1>2 DEF Keywords
    <3> QED
      BY <1>2, <1>3, <3>1, <3>2 DEF Provides
  <2> QED
    BY <1>10, <2>1, <2>2
<1>11. \A p \in pieces : p.lang # "GLSL"
  BY <1>2, <1>3 DEF Provides, Keywords
<1>12. ASSUME "PREFIX" \in DOMAIN shader
       PROVE  /\ "ColorAdd" \in Shd!Used <=> color = 2
              /\ "ColorAdd" \in Shd!Declared <=> color = 2
  <2> HIDE DEF pieces
  <2>1. /\ \A k \in DOMAIN shader : shader[k] \in pieces
        /\ \A p \in pieces : p = body \/ \E k \in DOMAIN shader : p = shader[k]
    BY DEF pieces
  <2>2. /\ "ColorAdd" \notin body.declares /\ "ColorAdd" \notin body.uses
        /\ "SETFRAGCOLOR" \in DOMAIN shader
    BY <1>2, <1>3, <1>12 DEF Provides
  <2>3. color = 2 => "ColorAdd" \in Shd!Used /\ "ColorAdd" \in Shd!Declared
    BY <1>2, <1>6, <1>12, <2>1, <2>2
  <2>4. ASSUME color # 2, NEW k \in DOMAIN shader
        PROVE  "ColorAdd" \notin shader[k].declares /\ "ColorAdd" \notin shader[k].uses
    BY <1>2, <2>4 DEF Keywords
  <2>5. color # 2 => "ColorAdd" \notin Shd!Used /\ "ColorAdd" \notin Shd!Declared
    BY <1>5, <1>7, <2>1, <2>2, <2>4
  <2> QED
    BY <2>3, <2>5
<1>13. choice[3] = color
  BY <1>1
<1> HIDE DEF pieces
<1> QED
  BY <1>4, <1>9, <1>10, <1>11, <1>12, <1>13
     DEF Shd!VariantsDeclareWhatTheyUse, Shd!VariantsAreCg, Shd!ColorIsAddedOnDemand

(* Every variant of every pixel shader declares what it uses, once, is all *)
(* of Cg, and adds a colour when it is to.                                 *)
THEOREM VariantsAreSound == ServicesSpec => []VariantsCompile
<1>1. ServicesInit => ShaderInv
  BY ShaderInit DEF ServicesInit
<1>2. [ServicesNext]_allVars => [Shd!Next]_shaderVars
  BY DEF ServicesNext, allVars, shaderVars
<1>3. ShaderInv /\ [Shd!Next]_shaderVars => ShaderInv'
  BY ShaderStep
<1>4. ShaderInv => VariantsCompile
  <2>1. ShaderInv => Shd!TypeOK
    BY DEF ShaderInv
  <2>2. ~Shd!Compiled =>
          Shd!VariantsDeclareWhatTheyUse /\ Shd!VariantsAreCg /\ Shd!ColorIsAddedOnDemand
    BY DEF Shd!VariantsDeclareWhatTheyUse, Shd!VariantsAreCg, Shd!ColorIsAddedOnDemand
  <2> QED
    BY <2>1, <2>2, VariantIsSound DEF VariantsCompile
<1> QED
  BY <1>1, <1>2, <1>3, <1>4, PTL DEF ServicesSpec
=============================================================================

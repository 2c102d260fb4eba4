----------------------------- MODULE BootProofs -----------------------------
(***************************************************************************)
(* Proofs about so_load, for files with any number of segments, and about  *)
(* main, for any set of library files and settings.  SoInv says at each    *)
(* label of so_load which blocks may still be allocated; from it follow    *)
(* that an error return leaves none and that success keeps them all.       *)
(* BootInv says what holds at each stage of main; up to so_free_temp it    *)
(* rests on what is shown of so_load.                                      *)
(***************************************************************************)
EXTENDS Boot, TLAPS

-----------------------------------------------------------------------------
(* so_load.                                                                *)

(* The lengths and kinds of the segments that are expected.                *)
LEMMA ExpectedShape ==
  ASSUME NEW img \in Files, Expected(img)
  PROVE  /\ Len(img.segments) \in 1..2
         /\ DOMAIN img.segments = 1..Len(img.segments)
         /\ img.segments[1] = Exec
         /\ Len(img.segments) = 2 => img.segments[2] = Data
BY DEF Expected, Files

(* Nothing is allocated before so_load begins.                             *)
LEMMA SoInitEstablishes == SoInit => SoInv
<1> SUFFICES ASSUME SoInit PROVE SoInv
  OBVIOUS
<1>1. image.segments \in Seq({Exec, Data})
  BY ImageAssumption DEF SoInit, Files
<1>2. Len(image.segments) \in Nat
  BY <1>1
<1>3. SoTypeOK
  <2>1. seg \in 1..(Len(image.segments) + 1)
    BY <1>2 DEF SoInit
  <2> QED
    BY <2>1 DEF SoInit, SoTypeOK
<1>4. Ledger /\ Reported
  BY DEF SoInit, Ledger, Reported, FailureIsClean, SuccessIsComplete, Returned
<1> QED
  BY <1>3, <1>4 DEF SoInv

(* Every step of so_load keeps SoInv.                                      *)
LEMMA SoInductiveStep == SoInv /\ [SoNext]_soVars => SoInv'
<1> SUFFICES ASSUME SoInv, [SoNext]_soVars PROVE SoInv'
  OBVIOUS
<1>1. /\ Len(image.segments) \in Nat
      /\ Segments = 1..Len(image.segments)
      /\ \A s \in Segments : image.segments[s] \in {Exec, Data}
  BY ImageAssumption DEF SoInv, SoTypeOK, Segments, Files
<1>2. Expected(image) =>
        /\ Len(image.segments) \in 1..2
        /\ image.segments[1] = Exec
        /\ Len(image.segments) = 2 => image.segments[2] = Data
        /\ StartsWithText
  <2>1. image \in Files
    BY ImageAssumption DEF SoInv, SoTypeOK
  <2> QED
    BY <2>1, ExpectedShape DEF StartsWithText
<1>3. image' = image /\ Segments' = Segments
  BY DEF SoNext, soVars, Segments, Open, AllocTemp, ReadFile, LoadText,
         DataWithoutText, LoadData, FillSegment, FillCrashes, FindTables, FreeData, FreeText, FreeSo
<1>4. /\ Expected(image)' = Expected(image)
      /\ StartsWithText' = StartsWithText
  BY <1>3 DEF Expected, StartsWithText
<1>5. NoBlock \notin Segments /\ Refused \notin Segments /\ Temp \notin Segments
  BY <1>1 DEF NoBlock, Refused, Temp
<1>6. NoBlock # Refused /\ NoBlock # Temp /\ Refused # Temp
  BY DEF NoBlock, Refused, Temp
<1>7. Exec # Data
  BY DEF Exec, Data
<1> USE <1>3, <1>4, <1>5, <1>6, <1>7 DEF SoInv, SoTypeOK
<1>8. CASE Open
  <2>1. SoTypeOK'
    BY <1>8 DEF Open, handles, layout
  <2>2. Ledger'
    BY <1>1, <1>2, <1>8
    DEF Open, handles, layout, Ledger, Reported, Placed, Begun, FailureIsClean,
        SuccessIsComplete, Returned
  <2>3. Reported'
    BY <1>1, <1>8 DEF Open, handles, layout, Reported,
       Returned, StartsWithText
  <2> QED
    BY <2>1, <2>2, <2>3
<1>9. CASE AllocTemp
  <2>1. SoTypeOK'
    BY <1>9 DEF AllocTemp, layout
  <2>2. Ledger'
    BY <1>1, <1>2, <1>9
    DEF AllocTemp, layout, Ledger, Reported, Placed, Begun, FailureIsClean,
        SuccessIsComplete, Returned
  <2>3. Reported'
    BY <1>1, <1>9 DEF AllocTemp, layout, Reported,
       Returned, StartsWithText
  <2> QED
    BY <2>1, <2>2, <2>3
<1>10. CASE ReadFile
  <2>1. SoTypeOK'
    BY <1>10 DEF ReadFile, handles, layout
  <2>2. Ledger'
    <3> SUFFICES ASSUME Expected(image) PROVE Ledger'
      BY DEF Ledger
    <3>1. seg = 1 /\ copied = {} /\ mem = {Temp} /\ tempId = Temp
      BY <1>10 DEF ReadFile, Ledger
    <3>2. Placed' = {} /\ Begun' = {}
      BY <1>1, <1>10, <3>1 DEF ReadFile, Placed, Begun
    <3>3. CASE image.magic
      BY <1>10, <3>1, <3>2, <3>3
      DEF ReadFile, handles, layout, Ledger, FailureIsClean,
          SuccessIsComplete, Returned
    <3>4. CASE ~image.magic
      BY <1>10, <3>1, <3>4
      DEF ReadFile, handles, layout, Ledger, FailureIsClean,
          SuccessIsComplete, Returned
    <3> QED
      BY <3>3, <3>4
  <2>3. Reported'
    BY <1>1, <1>10 DEF ReadFile, handles, layout, Reported,
       Returned, StartsWithText
  <2> QED
    BY <2>1, <2>2, <2>3
<1>11. CASE LoadText
  <2>1. SoTypeOK'
    BY <1>11 DEF LoadText
  <2>2. Ledger'
    <3> SUFFICES ASSUME Expected(image) PROVE Ledger'
      BY DEF Ledger
    <3>1. seg = 1
      <4>1. seg \in {1, 2} /\ image.segments[seg] = Exec
        BY <1>1, <1>2, <1>11 DEF LoadText
      <4> QED
        BY <1>1, <1>2, <1>11, <4>1 DEF LoadText
    <3>2. /\ Placed = {} /\ Placed' = {}
          /\ Begun = {} /\ (at' = "fill" => Begun' = {1})
      BY <1>1, <1>11, <3>1 DEF LoadText, Placed, Begun
    <3>3. mem = {Temp} /\ copied = {} /\ ~fd /\ image.magic /\ tempId = Temp
      BY <1>1, <1>11, <3>2 DEF LoadText, Ledger
    <3> QED
      BY <1>11, <3>1, <3>2, <3>3
      DEF LoadText, Ledger, FailureIsClean, SuccessIsComplete, Returned
  <2>3. Reported'
    BY <1>1, <1>11 DEF LoadText, Reported, Returned, StartsWithText
  <2> QED
    BY <2>1, <2>2, <2>3
<1>12. CASE DataWithoutText
  <2>1. SoTypeOK'
    BY <1>12 DEF DataWithoutText, handles, layout
  <2>2. Ledger'
    BY <1>1, <1>2, <1>12
    DEF DataWithoutText, handles, layout, Ledger, Reported, Placed, Begun, FailureIsClean,
        SuccessIsComplete, Returned
  <2>3. Reported'
    BY <1>1, <1>12 DEF DataWithoutText, handles, layout, Reported,
       Returned, StartsWithText
  <2> QED
    BY <2>1, <2>2, <2>3
<1>13. CASE LoadData
  <2>1. SoTypeOK'
    BY <1>13 DEF LoadData
  <2>2. Ledger'
    <3> SUFFICES ASSUME Expected(image) PROVE Ledger'
      BY DEF Ledger
    <3>1. seg = 2
      <4>1. seg \in {1, 2} /\ image.segments[seg] = Data
        BY <1>1, <1>2, <1>13 DEF LoadData
      <4> QED
        BY <1>1, <1>2, <1>13, <4>1 DEF LoadData
    <3>2. /\ Placed = {1} /\ Placed' = {1}
          /\ Begun = {1} /\ (at' = "fill" => Begun' = {1, 2})
      BY <1>1, <1>2, <1>13, <3>1 DEF LoadData, Placed, Begun
    <3>3. /\ mem = {Temp, 1} /\ copied = {1} /\ textId = 1 /\ textBase = 1
          /\ ~fd /\ image.magic /\ tempId = Temp
      BY <1>13, <3>1, <3>2 DEF LoadData, Ledger
    <3> QED
      BY <1>13, <3>1, <3>2, <3>3
      DEF LoadData, Ledger, FailureIsClean, SuccessIsComplete, Returned
  <2>3. Reported'
    BY <1>1, <1>13 DEF LoadData, Reported, Returned, StartsWithText
  <2> QED
    BY <2>1, <2>2, <2>3
<1>13a. CASE FillSegment
  <2>0. seg \in Segments /\ seg + 1 \in 1..(Len(image.segments) + 1)
    BY <1>1, <1>13a DEF FillSegment
  <2>1. SoTypeOK'
    BY <1>13a, <2>0 DEF FillSegment, handles
  <2>2. Ledger'
    <3> SUFFICES ASSUME Expected(image) PROVE Ledger'
      BY DEF Ledger
    <3>1. seg \in {1, 2}
      BY <1>1, <1>2, <2>0
    <3>2. /\ Placed' = Placed \union {seg} /\ Begun' = Begun
          /\ Begun = Placed \union {seg}
      BY <1>1, <1>13a, <2>0 DEF FillSegment, Placed, Begun
    <3>3. seg' = 2 => 2 \notin Begun'
      BY <1>1, <1>13a, <3>1, <3>2 DEF FillSegment, Placed
    <3>4. seg' = 2 => ~filled'
      BY <1>13a, <3>1 DEF FillSegment, Ledger
    <3> QED
      BY <1>13a, <3>1, <3>2, <3>3, <3>4
      DEF FillSegment, handles, Ledger, FailureIsClean, SuccessIsComplete,
          Returned
  <2>3. Reported'
    BY <1>1, <1>13a, <2>0
    DEF FillSegment, handles, Reported, Returned, StartsWithText
  <2> QED
    BY <2>1, <2>2, <2>3
<1>13b. CASE FillCrashes
  <2>1. SoTypeOK'
    BY <1>13b DEF FillCrashes, handles, layout
  <2>2. Ledger'
    BY <1>13b
    DEF FillCrashes, handles, layout, Ledger, FailureIsClean,
        SuccessIsComplete, Returned
  <2>3. Reported'
    BY <1>13b DEF FillCrashes, handles, layout, Reported, Returned,
       StartsWithText
  <2> QED
    BY <2>1, <2>2, <2>3
<1>14. CASE FindTables
  <2>1. SoTypeOK'
    BY <1>14 DEF FindTables, handles, layout
  <2>2. Ledger'
    <3> SUFFICES ASSUME Expected(image) PROVE Ledger'
      BY DEF Ledger
    <3>1. Placed = Segments /\ Begun = Segments /\ seg \in {2, 3}
      BY <1>1, <1>2, <1>14 DEF FindTables, Placed, Begun
    <3>2. /\ mem = {Temp} \union Segments /\ copied = Segments
          /\ textId = 1 /\ textBase = 1 /\ 1 \in Segments
          /\ ~fd /\ image.magic /\ tempId = Temp
      BY <1>1, <1>2, <1>14, <3>1 DEF FindTables, Ledger
    <3>3. CASE image.tables
      BY <1>14, <3>2, <3>3
      DEF FindTables, handles, layout, Ledger, FailureIsClean,
          SuccessIsComplete, Returned
    <3>4. CASE ~image.tables
      <4>1. mem \subseteq {Temp, textId, dataId}
        BY <1>1, <1>2, <1>14, <3>1, <3>2 DEF FindTables, Ledger
      <4> QED
        BY <1>14, <3>2, <3>4, <4>1
        DEF FindTables, handles, layout, Ledger, FailureIsClean,
            SuccessIsComplete, Returned
    <3> QED
      BY <3>3, <3>4
  <2>3. Reported'
    BY <1>1, <1>14 DEF FindTables, handles, layout, Reported,
       Returned, StartsWithText
  <2> QED
    BY <2>1, <2>2, <2>3
<1>15. CASE FreeData
  <2>1. SoTypeOK'
    BY <1>15 DEF FreeData, handles, layout
  <2>2. Ledger'
    BY <1>1, <1>2, <1>15
    DEF FreeData, handles, layout, Ledger, Reported, Placed, Begun, FailureIsClean,
        SuccessIsComplete, Returned
  <2>3. Reported'
    BY <1>1, <1>15 DEF FreeData, handles, layout, Reported,
       Returned, StartsWithText
  <2> QED
    BY <2>1, <2>2, <2>3
<1>16. CASE FreeText
  <2>1. SoTypeOK'
    BY <1>16 DEF FreeText, handles, layout
  <2>2. Ledger'
    BY <1>1, <1>2, <1>16
    DEF FreeText, handles, layout, Ledger, Reported, Placed, Begun, FailureIsClean,
        SuccessIsComplete, Returned
  <2>3. Reported'
    BY <1>1, <1>16 DEF FreeText, handles, layout, Reported,
       Returned, StartsWithText
  <2> QED
    BY <2>1, <2>2, <2>3
<1>17. CASE FreeSo
  <2>1. SoTypeOK'
    BY <1>17 DEF FreeSo, handles, layout
  <2>2. Ledger'
    BY <1>1, <1>2, <1>17
    DEF FreeSo, handles, layout, Ledger, Reported, Placed, Begun, FailureIsClean,
        SuccessIsComplete, Returned
  <2>3. Reported'
    BY <1>1, <1>17 DEF FreeSo, handles, layout, Reported,
       Returned, StartsWithText
  <2> QED
    BY <2>1, <2>2, <2>3
<1>18. CASE UNCHANGED soVars
  BY <1>18
  DEF soVars, Segments, Ledger, Placed, Begun, Reported, FailureIsClean,
      SuccessIsComplete, Returned
<1> QED
  BY <1>8, <1>9, <1>10, <1>11, <1>12, <1>13, <1>13a, <1>13b, <1>14, <1>15, <1>16, <1>17, <1>18
  DEF SoNext

(* SoInv holds throughout so_load.                                         *)
THEOREM SoInvariance == SoSpec => []SoInv
BY SoInitEstablishes, SoInductiveStep, PTL DEF SoSpec

(* Every variable keeps its type.                                          *)
THEOREM SoTypeCorrect == SoSpec => []SoTypeOK
<1>1. SoInv => SoTypeOK
  BY DEF SoInv
<1> QED
  BY SoInvariance, <1>1, PTL

(* For a library of the expected shape, an error return leaves no block.   *)
THEOREM CleanFailure == SoSpec => []FailureIsClean
<1>1. SoInv => FailureIsClean
  BY DEF SoInv, Ledger, FailureIsClean
<1> QED
  BY SoInvariance, <1>1, PTL

(* For a library of the expected shape, 0 means all of it is in place.     *)
THEOREM CompleteSuccess == SoSpec => []SuccessIsComplete
<1>1. SoInv => SuccessIsComplete
  BY DEF SoInv, Ledger, SuccessIsComplete
<1> QED
  BY SoInvariance, <1>1, PTL

(* Whenever text comes first, no error label is reached without an error   *)
(* to return.                                                              *)
THEOREM ReportedFaults == SoSpec => []OrderedFaultIsReported
<1>1. SoInv => OrderedFaultIsReported
  BY DEF SoInv, Reported, OrderedFaultIsReported, FaultIsReported
<1> QED
  BY SoInvariance, <1>1, PTL

(* so_load keeps its contract with main, for any set of library files.     *)
THEOREM ContractKept == SoSpec => []SoContract
<1>1. FailureIsClean /\ SuccessIsComplete /\ OrderedFaultIsReported => SoContract
  BY DEF SoContract
<1> QED
  BY <1>1, CleanFailure, CompleteSuccess, ReportedFaults, PTL

-----------------------------------------------------------------------------
(* main.                                                                   *)

(* Before main begins.                                                     *)
LEMMA InitEstablishes == Init => BootInv
<1> SUFFICES ASSUME Init PROVE BootInv
  OBVIOUS
<1>1. SoInv
  BY SoInitEstablishes DEF Init
<1>2. TypeOK
  BY <1>1, ConfigAssumption DEF Init, TypeOK, SoInv
<1>3. MemoryByStage
  BY <1>1 DEF Init, SoInit, MemoryByStage, BeforeLoad, WithHeaders, AfterFree, Refusing
<1>4. CodeByStage /\ GxmByStage
  BY DEF Init, CodeByStage, GxmByStage, BeforeLoad, WithHeaders, AfterFree
<1> QED
  BY <1>2, <1>3, <1>4 DEF BootInv

(* Every stage of main leads to the next one's part of BootInv.            *)
LEMMA InductiveStep == BootInv /\ [Next]_vars => BootInv'
<1> SUFFICES ASSUME BootInv, [Next]_vars PROVE BootInv'
  OBVIOUS
<1> USE DEF BeforeLoad, WithHeaders, AfterFree, Refusing, At, Goto, Patches
<1>1. ASSUME UNCHANGED soVars
      PROVE  /\ SoInv => SoInv'
             /\ SoTypeOK'
             /\ mem' = mem /\ at' = at /\ res' = res
             /\ Segments' = Segments /\ Returned' = Returned
             /\ Expected(image)' = Expected(image)
  <2>1. SoTypeOK
    BY DEF BootInv, TypeOK
  <2>2. SoTypeOK'
    BY <1>1, <2>1 DEF SoTypeOK, soVars, Segments
  <2> QED
    BY <1>1, <2>2, SoInductiveStep
    DEF soVars, Segments, Returned, Expected
<1>2. CASE CheckKubridge
  <2>0. UNCHANGED soVars
    BY <1>2 DEF CheckKubridge, Check
  <2>1. TypeOK'
    BY <1>1, <1>2, <2>0, ConfigAssumption DEF BootInv, TypeOK, CheckKubridge, Check, codeVars
  <2>2. MemoryByStage'
    BY <1>1, <1>2, <2>0
    DEF BootInv, TypeOK, MemoryByStage, CheckKubridge, Check
  <2>3. CodeByStage' /\ GxmByStage'
    BY <1>2 DEF BootInv, CodeByStage, GxmByStage, CheckKubridge, Check, codeVars
  <2> QED
    BY <2>1, <2>2, <2>3 DEF BootInv
<1>3. CASE CheckShacccg
  <2>0. UNCHANGED soVars
    BY <1>3 DEF CheckShacccg, Check
  <2>1. TypeOK'
    BY <1>1, <1>3, <2>0, ConfigAssumption DEF BootInv, TypeOK, CheckShacccg, Check, codeVars
  <2>2. MemoryByStage'
    BY <1>1, <1>3, <2>0
    DEF BootInv, TypeOK, MemoryByStage, CheckShacccg, Check
  <2>3. CodeByStage' /\ GxmByStage'
    BY <1>3 DEF BootInv, CodeByStage, GxmByStage, CheckShacccg, Check, codeVars
  <2> QED
    BY <2>1, <2>2, <2>3 DEF BootInv
<1>4. CASE FindData
  <2>0. UNCHANGED soVars
    BY <1>4 DEF FindData, Check
  <2>1. TypeOK'
    BY <1>1, <1>4, <2>0, ConfigAssumption DEF BootInv, TypeOK, FindData, Check, codeVars
  <2>2. MemoryByStage'
    BY <1>1, <1>4, <2>0
    DEF BootInv, TypeOK, MemoryByStage, FindData, Check
  <2>3. CodeByStage' /\ GxmByStage'
    BY <1>4 DEF BootInv, CodeByStage, GxmByStage, FindData, Check, codeVars
  <2> QED
    BY <2>1, <2>2, <2>3 DEF BootInv
<1>5. CASE OpenConfig
  <2>0. UNCHANGED soVars
    BY <1>5 DEF OpenConfig
  <2>1. TypeOK'
    BY <1>1, <1>5, <2>0, ConfigAssumption
    DEF BootInv, TypeOK, OpenConfig, codeVars
  <2>2. MemoryByStage'
    BY <1>1, <1>5, <2>0
    DEF BootInv, TypeOK, MemoryByStage, OpenConfig
  <2>3. CodeByStage' /\ GxmByStage'
    BY <1>5 DEF BootInv, CodeByStage, GxmByStage, OpenConfig, codeVars
  <2> QED
    BY <2>1, <2>2, <2>3 DEF BootInv
<1>5a. CASE ReadConfig
  <2>0. UNCHANGED soVars
    BY <1>5a DEF ReadConfig
  <2>1. TypeOK'
    BY <1>1, <1>5a, <2>0, ConfigAssumption
    DEF BootInv, TypeOK, CodeByStage, ReadConfig, codeVars
  <2>2. MemoryByStage'
    BY <1>1, <1>5a, <2>0
    DEF BootInv, TypeOK, MemoryByStage, ReadConfig
  <2>3. CodeByStage' /\ GxmByStage'
    BY <1>5a DEF BootInv, CodeByStage, GxmByStage, ReadConfig, codeVars
  <2> QED
    BY <2>1, <2>2, <2>3 DEF BootInv
<1>5b. CASE ReadError
  <2>0. UNCHANGED soVars
    BY <1>5b DEF ReadError
  <2>1. TypeOK'
    BY <1>1, <1>5b, <2>0, ConfigAssumption
    DEF BootInv, TypeOK, ReadError, codeVars
  <2>2. MemoryByStage'
    BY <1>1, <1>5b, <2>0
    DEF BootInv, TypeOK, MemoryByStage, ReadError
  <2>3. CodeByStage' /\ GxmByStage'
    BY <1>5b DEF BootInv, CodeByStage, GxmByStage, ReadError, codeVars
  <2> QED
    BY <2>1, <2>2, <2>3 DEF BootInv
<1>6. CASE CheckData
  <2>0. UNCHANGED soVars
    BY <1>6 DEF CheckData, Check
  <2>1. TypeOK'
    BY <1>1, <1>6, <2>0, ConfigAssumption DEF BootInv, TypeOK, CheckData, Check, codeVars
  <2>2. MemoryByStage'
    BY <1>1, <1>6, <2>0
    DEF BootInv, TypeOK, MemoryByStage, CheckData, Check
  <2>3. CodeByStage' /\ GxmByStage'
    BY <1>6 DEF BootInv, CodeByStage, GxmByStage, CheckData, Check, codeVars
  <2> QED
    BY <2>1, <2>2, <2>3 DEF BootInv
<1>7. CASE UpdateImports
  <2>0. UNCHANGED soVars
    BY <1>7 DEF UpdateImports
  <2>1. TypeOK'
    BY <1>1, <1>7, <2>0, ConfigAssumption DEF BootInv, TypeOK, UpdateImports, codeVars
  <2>2. MemoryByStage'
    BY <1>1, <1>7, <2>0
    DEF BootInv, TypeOK, MemoryByStage, UpdateImports
  <2>3. CodeByStage' /\ GxmByStage'
    BY <1>7 DEF BootInv, CodeByStage, GxmByStage, UpdateImports, codeVars
  <2> QED
    BY <2>1, <2>2, <2>3 DEF BootInv
<1>8. CASE Resolve
  <2>0. UNCHANGED soVars
    BY <1>8 DEF Resolve
  <2>1. TypeOK'
    BY <1>1, <1>8, <2>0, ConfigAssumption DEF BootInv, TypeOK, Resolve, codeVars
  <2>2. MemoryByStage'
    BY <1>1, <1>8, <2>0
    DEF BootInv, TypeOK, MemoryByStage, Resolve
  <2>3. CodeByStage' /\ GxmByStage'
    BY <1>8 DEF BootInv, CodeByStage, GxmByStage, Resolve, codeVars
  <2> QED
    BY <2>1, <2>2, <2>3 DEF BootInv
<1>9a. CASE PatchOpenal
  <2>0. UNCHANGED soVars
    BY <1>9a DEF PatchOpenal, PatchWith
  <2>1. TypeOK'
    BY <1>1, <1>9a, <2>0, ConfigAssumption DEF BootInv, TypeOK, PatchOpenal, PatchWith, codeVars
  <2>2. MemoryByStage'
    BY <1>1, <1>9a, <2>0
    DEF BootInv, TypeOK, MemoryByStage, PatchOpenal, PatchWith
  <2>3. CodeByStage' /\ GxmByStage'
    BY <1>9a DEF BootInv, CodeByStage, GxmByStage, PatchOpenal, PatchWith, codeVars
  <2> QED
    BY <2>1, <2>2, <2>3 DEF BootInv
<1>9b. CASE PatchOpengl
  <2>0. UNCHANGED soVars
    BY <1>9b DEF PatchOpengl, PatchWith
  <2>1. TypeOK'
    BY <1>1, <1>9b, <2>0, ConfigAssumption DEF BootInv, TypeOK, PatchOpengl, PatchWith, codeVars
  <2>2. MemoryByStage'
    BY <1>1, <1>9b, <2>0
    DEF BootInv, TypeOK, MemoryByStage, PatchOpengl, PatchWith
  <2>3. CodeByStage' /\ GxmByStage'
    BY <1>9b DEF BootInv, CodeByStage, GxmByStage, PatchOpengl, PatchWith, codeVars
  <2> QED
    BY <2>1, <2>2, <2>3 DEF BootInv
<1>9c. CASE PatchGame
  <2>0. UNCHANGED soVars
    BY <1>9c DEF PatchGame, PatchWith
  <2>1. TypeOK'
    BY <1>1, <1>9c, <2>0, ConfigAssumption DEF BootInv, TypeOK, PatchGame, PatchWith, codeVars
  <2>2. MemoryByStage'
    BY <1>1, <1>9c, <2>0
    DEF BootInv, TypeOK, MemoryByStage, PatchGame, PatchWith
  <2>3. CodeByStage' /\ GxmByStage'
    BY <1>9c DEF BootInv, CodeByStage, GxmByStage, PatchGame, PatchWith, codeVars
  <2> QED
    BY <2>1, <2>2, <2>3 DEF BootInv
<1>10. CASE Flush
  <2>0. UNCHANGED soVars
    BY <1>10 DEF Flush
  <2>1. TypeOK'
    BY <1>1, <1>10, <2>0, ConfigAssumption DEF BootInv, TypeOK, Flush, codeVars
  <2>2. MemoryByStage'
    BY <1>1, <1>10, <2>0
    DEF BootInv, TypeOK, MemoryByStage, Flush
  <2>3. CodeByStage' /\ GxmByStage'
    BY <1>10 DEF BootInv, CodeByStage, GxmByStage, Flush, codeVars
  <2> QED
    BY <2>1, <2>2, <2>3 DEF BootInv
<1>11. CASE ExecuteInitArray
  <2>0. UNCHANGED soVars
    BY <1>11 DEF ExecuteInitArray
  <2>1. TypeOK'
    BY <1>1, <1>11, <2>0, ConfigAssumption DEF BootInv, TypeOK, ExecuteInitArray, codeVars
  <2>2. MemoryByStage'
    BY <1>1, <1>11, <2>0
    DEF BootInv, TypeOK, MemoryByStage, ExecuteInitArray
  <2>3. CodeByStage' /\ GxmByStage'
    BY <1>11 DEF BootInv, CodeByStage, GxmByStage, ExecuteInitArray, codeVars
  <2> QED
    BY <2>1, <2>2, <2>3 DEF BootInv
<1>12. CASE FiosInit
  <2>0. UNCHANGED soVars
    BY <1>12 DEF FiosInit
  <2>1. TypeOK'
    BY <1>1, <1>12, <2>0, ConfigAssumption DEF BootInv, TypeOK, FiosInit, codeVars
  <2>2. MemoryByStage'
    BY <1>1, <1>12, <2>0
    DEF BootInv, TypeOK, MemoryByStage, FiosInit
  <2>3. CodeByStage' /\ GxmByStage'
    BY <1>12 DEF BootInv, CodeByStage, GxmByStage, FiosInit, codeVars
  <2> QED
    BY <2>1, <2>2, <2>3 DEF BootInv
<1>13. CASE FindSymbols
  <2>0. UNCHANGED soVars
    BY <1>13 DEF FindSymbols, Check
  <2>1. TypeOK'
    BY <1>1, <1>13, <2>0, ConfigAssumption DEF BootInv, TypeOK, FindSymbols, Check, codeVars
  <2>2. MemoryByStage'
    BY <1>1, <1>13, <2>0
    DEF BootInv, TypeOK, MemoryByStage, FindSymbols, Check
  <2>3. CodeByStage' /\ GxmByStage'
    BY <1>13 DEF BootInv, CodeByStage, GxmByStage, FindSymbols, Check, codeVars
  <2> QED
    BY <2>1, <2>2, <2>3 DEF BootInv
<1>14. CASE VglInit
  <2>0. UNCHANGED soVars
    BY <1>14 DEF VglInit
  <2>1. TypeOK'
    BY <1>1, <1>14, <2>0, ConfigAssumption DEF BootInv, TypeOK, VglInit, codeVars
  <2>2. MemoryByStage'
    BY <1>1, <1>14, <2>0
    DEF BootInv, TypeOK, MemoryByStage, VglInit
  <2>3. CodeByStage' /\ GxmByStage'
    BY <1>14 DEF BootInv, CodeByStage, GxmByStage, VglInit, codeVars
  <2> QED
    BY <2>1, <2>2, <2>3 DEF BootInv
<1>15. CASE SaveSettings
  <2>0. UNCHANGED soVars
    BY <1>15 DEF SaveSettings
  <2>1. TypeOK'
    BY <1>1, <1>15, <2>0, ConfigAssumption DEF BootInv, TypeOK, SaveSettings, codeVars
  <2>2. MemoryByStage'
    BY <1>1, <1>15, <2>0
    DEF BootInv, TypeOK, MemoryByStage, SaveSettings
  <2>3. CodeByStage' /\ GxmByStage'
    BY <1>15 DEF BootInv, CodeByStage, GxmByStage, SaveSettings, codeVars
  <2> QED
    BY <2>1, <2>2, <2>3 DEF BootInv
<1>16. CASE ExitAndroidGame
  <2>0. UNCHANGED soVars
    BY <1>16 DEF ExitAndroidGame
  <2>1. TypeOK'
    BY <1>1, <1>16, <2>0, ConfigAssumption DEF BootInv, TypeOK, ExitAndroidGame, codeVars
  <2>2. MemoryByStage'
    BY <1>1, <1>16, <2>0
    DEF BootInv, TypeOK, MemoryByStage, ExitAndroidGame
  <2>3. CodeByStage' /\ GxmByStage'
    BY <1>16 DEF BootInv, CodeByStage, GxmByStage, ExitAndroidGame, codeVars
  <2> QED
    BY <2>1, <2>2, <2>3 DEF BootInv
<1>17. CASE FatalError
  <2>0. UNCHANGED soVars
    BY <1>17 DEF FatalError
  <2>1. TypeOK'
    BY <1>1, <1>17, <2>0, ConfigAssumption
    DEF BootInv, TypeOK, FatalError, codeVars
  <2>2. MemoryByStage'
    BY <1>1, <1>17, <2>0
    DEF BootInv, TypeOK, MemoryByStage, FatalError
  <2>3. CodeByStage' /\ GxmByStage'
    BY <1>17 DEF BootInv, CodeByStage, GxmByStage, FatalError, codeVars
  <2> QED
    BY <2>1, <2>2, <2>3 DEF BootInv
<1>18. CASE MsgDialogInit
  <2>0. UNCHANGED soVars
    BY <1>18 DEF MsgDialogInit
  <2>1. TypeOK'
    BY <1>1, <1>18, <2>0, ConfigAssumption
    DEF BootInv, TypeOK, MsgDialogInit, codeVars
  <2>2. MemoryByStage'
    BY <1>1, <1>18, <2>0
    DEF BootInv, TypeOK, MemoryByStage, MsgDialogInit
  <2>3. CodeByStage' /\ GxmByStage'
    BY <1>18 DEF BootInv, CodeByStage, GxmByStage, MsgDialogInit, codeVars
  <2> QED
    BY <2>1, <2>2, <2>3 DEF BootInv
<1>18a. CASE EndProcess
  <2>0. UNCHANGED soVars
    BY <1>18a DEF EndProcess
  <2>1. TypeOK'
    BY <1>1, <1>18a, <2>0, ConfigAssumption
    DEF BootInv, TypeOK, EndProcess, codeVars
  <2>2. MemoryByStage'
    BY <1>1, <1>18a, <2>0
    DEF BootInv, TypeOK, MemoryByStage, EndProcess
  <2>3. CodeByStage' /\ GxmByStage'
    BY <1>18a DEF BootInv, CodeByStage, GxmByStage, EndProcess, codeVars
  <2> QED
    BY <2>1, <2>2, <2>3 DEF BootInv
<1>18b. CASE Crash
  <2>0. UNCHANGED soVars
    BY <1>18b DEF Crash
  <2>1. TypeOK'
    BY <1>1, <1>18b, <2>0, ConfigAssumption
    DEF BootInv, TypeOK, Crash, codeVars
  <2>2. MemoryByStage'
    BY <1>1, <1>18b, <2>0
    DEF BootInv, TypeOK, MemoryByStage, Crash
  <2>3. CodeByStage' /\ GxmByStage'
    BY <1>18b DEF BootInv, CodeByStage, GxmByStage, Crash, codeVars
  <2> QED
    BY <2>1, <2>2, <2>3 DEF BootInv
<1>19. CASE Loaded
  <2>0. UNCHANGED soVars
    BY <1>19 DEF Loaded
  <2>1. TypeOK'
    BY <1>1, <1>19, <2>0, ConfigAssumption DEF BootInv, TypeOK, Loaded, codeVars
  <2>2. MemoryByStage'
    BY <1>1, <1>19, <2>0
    DEF BootInv, TypeOK, MemoryByStage, Loaded, SoInv, Ledger, FailureIsClean
  <2>3. CodeByStage' /\ GxmByStage'
    BY <1>19 DEF BootInv, CodeByStage, GxmByStage, Loaded, codeVars
  <2> QED
    BY <2>1, <2>2, <2>3 DEF BootInv
<1>20. CASE Load
  <2>1. SoInv' 
    BY <1>20, SoInductiveStep DEF Load, BootInv, MemoryByStage
  <2>2. TypeOK'
    BY <1>20, <2>1 DEF Load, BootInv, TypeOK, SoInv
  <2>3. MemoryByStage'
    BY <1>20, <2>1 DEF Load, MemoryByStage
  <2>4. CodeByStage' /\ GxmByStage'
    BY <1>20 DEF Load, BootInv, CodeByStage, GxmByStage
  <2> QED
    BY <2>2, <2>3, <2>4 DEF BootInv
<1>21. CASE FreeTemp
  <2>1. SoTypeOK'
    BY <1>21 DEF FreeTemp, BootInv, TypeOK, SoTypeOK, handles, layout,
         Segments
  <2>2. TypeOK'
    BY <1>21, <2>1 DEF FreeTemp, BootInv, TypeOK, codeVars
  <2>3. MemoryByStage'
    <3> SUFFICES ASSUME Expected(image) PROVE mem' = Segments
      BY <1>21 DEF FreeTemp, MemoryByStage, BootInv, Expected, Segments
    <3>1. SoInv /\ Returned /\ res # "negative"
      BY <1>21 DEF FreeTemp, BootInv, MemoryByStage
    <3>2. /\ image \in Files
          /\ Len(image.segments) \in 1..2
          /\ Segments = 1..Len(image.segments)
          /\ StartsWithText
      <4>1. image \in Files
        BY <3>1, ImageAssumption DEF SoInv, SoTypeOK
      <4> QED
        BY <4>1, ExpectedShape DEF StartsWithText, Segments
    <3>3. mem = Segments \union {Temp} /\ tempId = Temp
      BY <3>1, <3>2 DEF SoInv, Ledger, Reported, SuccessIsComplete
    <3>4. Temp \notin Segments
      BY <3>2 DEF Temp
    <3> QED
      BY <1>21, <3>3, <3>4 DEF FreeTemp
  <2>4. CodeByStage' /\ GxmByStage'
    BY <1>21 DEF FreeTemp, BootInv, CodeByStage, GxmByStage, codeVars
  <2> QED
    BY <2>2, <2>3, <2>4 DEF BootInv
<1>22. CASE UNCHANGED vars
  <2>1. UNCHANGED soVars
    BY <1>22 DEF vars
  <2> QED
    BY <1>1, <1>22, <2>1
    DEF vars, bootVars, BootInv, TypeOK, MemoryByStage, CodeByStage, GxmByStage
<1> QED
  BY <1>2, <1>3, <1>4, <1>5, <1>5a, <1>5b, <1>6, <1>7, <1>8, <1>9a, <1>9b,
     <1>9c, <1>10, <1>11, <1>12, <1>13, <1>14, <1>15, <1>16, <1>17, <1>18,
     <1>18a, <1>18b, <1>19, <1>20, <1>21, <1>22
  DEF Next

(* BootInv holds at every stage.                                           *)
THEOREM Invariance == Spec => []BootInv
BY InitEstablishes, InductiveStep, PTL DEF Spec

(* Every variable keeps its type.                                          *)
THEOREM TypeCorrect == Spec => []TypeOK
<1>1. BootInv => TypeOK
  BY DEF BootInv
<1> QED
  BY Invariance, <1>1, PTL

(* Game code runs only after the hooks, the imports and the flush.         *)
THEOREM FinalCode == Spec => []CodeIsFinal
<1>1. BootInv => CodeIsFinal
  BY DEF BootInv, CodeByStage, CodeIsFinal, Executing, AfterFree, WithHeaders
<1> QED
  BY Invariance, <1>1, PTL

(* The section headers are read before so_free_temp only.                  *)
THEOREM LiveHeaders == Spec => []HeadersAlive
<1>1. BootInv => HeadersAlive
  BY DEF BootInv, MemoryByStage, HeadersAlive, WithHeaders, SoInv, Reported
<1> QED
  BY Invariance, <1>1, PTL

(* Blocks are neither kept after so_free_temp nor after a refusal.         *)
THEOREM NothingKept == Spec => []NothingLeftOver
<1>1. BootInv => NothingLeftOver
  BY DEF BootInv, MemoryByStage, NothingLeftOver, AfterFree
<1> QED
  BY Invariance, <1>1, PTL

(* GXM is never initialised over vgl, or over the dialog's own use of it.  *)
THEOREM OneGxmUser == Spec => GxmTakenOnce
<1>1. BootInv /\ [Next]_vars =>
        [gxm' \in {"dialog", "vgl"} /\ gxm' # gxm => gxm = "nobody"]_vars
  BY DEF BootInv, GxmByStage, Next, Check, At, CheckKubridge, CheckShacccg,
         FindData, OpenConfig, ReadConfig, ReadError, CheckData, Load, Loaded,
         Crash, UpdateImports, Resolve, PatchOpenal, PatchOpengl, PatchGame,
         PatchWith, Flush, ExecuteInitArray, FreeTemp, FiosInit, FindSymbols,
         VglInit, SaveSettings, ExitAndroidGame, FatalError, MsgDialogInit,
         EndProcess
<1> QED
  BY Invariance, <1>1, PTL DEF Spec, GxmTakenOnce
=============================================================================

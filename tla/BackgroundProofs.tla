-------------------------- MODULE BackgroundProofs --------------------------
(***************************************************************************)
(* Proofs about the threads in the background.  The GPS time reference of  *)
(* thread_gps and thread_valid, for every maximal age of the reference,    *)
(* number of crystal samples, roll-over period of the counter and every    *)
(* bound on lateness and outages; and how thread_spectral_scan and         *)
(* thread_jit share the SX1261, for any set of RF chains and number of     *)
(* channels, with and without LBT.                                         *)
(***************************************************************************)
EXTENDS TimeRef, SpectralScan, TLAPS

RefType == [set : BOOLEAN, utc : Nat, gps : Nat, cnt : Nat, age : Nat,
            xtal_err : {"zero", "slope", "one"}]

TypeInv ==
    /\ rmc_first \in BOOLEAN
    /\ msg \in {"rmc", "ubx"}
    /\ behind \in Int /\ behind >= -1
    /\ utc \in Nat
    /\ ref \in RefType
    /\ aber_min1 \in BOOLEAN /\ aber_min2 \in BOOLEAN
    /\ bad_run \in Nat /\ settled \in BOOLEAN
    /\ valid_pc \in {"check", "correct"}
    /\ valid_late \in 0..VALID_LATENCY
    /\ ref_valid_local \in BOOLEAN /\ gps_ref_valid \in BOOLEAN
    /\ xtal_correct_ok \in BOOLEAN
    /\ init_cpt \in Nat /\ samples \in Nat

-----------------------------------------------------------------------------
(* Type correctness.  The synchronisation reads a message only once its    *)
(* pulse has come, so that the ages it stores are natural numbers.         *)
LEMMA InitType == Init => TypeInv
<1> SUFFICES ASSUME Init PROVE TypeInv
  OBVIOUS
<1>1. ref \in RefType
  BY DEF Init, RefType, NoRef
<1>2. msg \in {"rmc", "ubx"}
  BY DEF Init, FirstMsg
<1>3. /\ rmc_first \in BOOLEAN /\ aber_min1 \in BOOLEAN /\ aber_min2 \in BOOLEAN
      /\ settled \in BOOLEAN /\ ref_valid_local \in BOOLEAN
      /\ gps_ref_valid \in BOOLEAN /\ xtal_correct_ok \in BOOLEAN
  BY Zenon DEF Init
<1>4. /\ behind \in Int /\ behind >= -1 /\ utc \in Nat /\ bad_run \in Nat
      /\ valid_pc \in {"check", "correct"} /\ valid_late \in 0..VALID_LATENCY
      /\ init_cpt \in Nat /\ samples \in Nat
  BY TimeRefConstants DEF Init
<1> QED
  BY <1>1, <1>2, <1>3, <1>4, Zenon DEF TypeInv

(* What a new reference is made of.                                        *)
LEMMA NewRefType ==
    ASSUME TypeInv, behind >= 0
    PROVE  NewRef \in RefType
BY DEF TypeInv, RefType, NewRef

(* Every step of the two threads and every pulse preserves the types.      *)
LEMMA NextType == TypeInv /\ [Next]_vars => TypeInv'
<1> SUFFICES ASSUME TypeInv, [Next]_vars PROVE TypeInv'
  OBVIOUS
<1> USE TimeRefConstants DEF TypeInv
<1>1. CASE Second
  <2>1. ref' \in RefType
    BY <1>1 DEF Second, RefType
  <2> QED
    BY <1>1, <2>1 DEF Second
<1>2. CASE Heal
  BY <1>2 DEF Heal, gpsVars, validVars
<1>3. CASE LoseMsg
  BY <1>3 DEF LoseMsg, NextMsg, validVars
<1>4. CASE ParseRmc
  BY <1>4 DEF ParseRmc, NextMsg, validVars
<1>5. CASE gps_process_sync
  <2>1. ref' \in RefType
    BY <1>5, NewRefType DEF gps_process_sync, lgw_gps_sync
  <2>2. aber_min1' \in BOOLEAN /\ aber_min2' \in BOOLEAN
    BY <1>5 DEF gps_process_sync, lgw_gps_sync, Aberrant
  <2> QED
    BY <1>5, <2>1, <2>2 DEF gps_process_sync, NextMsg, validVars
<1>6. CASE ValidCheck
  BY <1>6 DEF ValidCheck, gpsVars
<1>7. CASE ValidCorrect
  <2>1. init_cpt' \in Nat
    BY <1>7 DEF ValidCorrect
  <2>2. xtal_correct_ok' \in BOOLEAN
    BY <1>7, Zenon DEF ValidCorrect
  <2> QED
    BY <1>7, <2>1, <2>2 DEF ValidCorrect, gpsVars
<1>8. CASE UNCHANGED vars
  BY <1>8 DEF vars, gpsVars, validVars
<1> QED
  BY <1>1, <1>2, <1>3, <1>4, <1>5, <1>6, <1>7, <1>8
     DEF Next, thread_gps, thread_valid

-----------------------------------------------------------------------------
(* lgw_gps_sync leaves xtal_err at 0 only as long as it has not stored a   *)
(* reference, and between two checks of thread_valid a valid reference     *)
(* grows older by at most the pulses since the last check.                 *)
UsableInv ==
    /\ TypeInv
    /\ ref.set => ref.xtal_err # "zero"
    /\ gps_ref_valid => ref.set /\ ref.age <= GPS_REF_MAX_AGE + valid_late

(* lgw_gps_sync, case by case: the reference stays, or becomes the new     *)
(* point with an xtal_err in range.                                        *)
LEMMA SyncOutcome ==
    ASSUME TypeInv, gps_process_sync
    PROVE  \/ ref' = ref
           \/ /\ ref' = NewRef /\ ref'.set /\ ref'.age = 0
              /\ ref'.xtal_err # "zero"
<1>1. ref' = ref \/ ref' = NewRef
  BY DEF gps_process_sync, lgw_gps_sync
<1>2. NewRef.set /\ NewRef.age = 0
  BY DEF NewRef
<1>3. NewRef.xtal_err # "zero"
  BY DEF NewRef
<1> QED
  BY <1>1, <1>2, <1>3

(* Every step preserves UsableInv.                                         *)
LEMMA NextUsable == UsableInv /\ [Next]_vars => UsableInv'
<1> SUFFICES ASSUME UsableInv, [Next]_vars PROVE UsableInv'
  OBVIOUS
<1>t. TypeInv /\ TypeInv'
  BY NextType DEF UsableInv
<1> USE TimeRefConstants
<1>1. CASE Second
  <2>1. CASE ref.set
    <3>1. /\ ref'.set /\ ref'.xtal_err = ref.xtal_err
          /\ ref'.age = ref.age + 1
      BY <1>t, <1>1, <2>1 DEF Second, TypeInv, RefType
    <3>2. valid_late' = valid_late + 1 /\ gps_ref_valid' = gps_ref_valid
      BY <1>1 DEF Second
    <3> QED
      BY <1>t, <2>1, <3>1, <3>2 DEF UsableInv, TypeInv, RefType
  <2>2. CASE ~ref.set
    BY <1>t, <1>1, <2>2 DEF Second, UsableInv
  <2> QED
    BY <2>1, <2>2
<1>2. CASE Heal
  BY <1>t, <1>2 DEF Heal, gpsVars, validVars, UsableInv
<1>3. CASE LoseMsg
  BY <1>t, <1>3 DEF LoseMsg, validVars, UsableInv
<1>4. CASE ParseRmc
  BY <1>t, <1>4 DEF ParseRmc, validVars, UsableInv
<1>5. CASE gps_process_sync
  <2>1. gps_ref_valid' = gps_ref_valid /\ valid_late' = valid_late
    BY <1>5 DEF gps_process_sync, validVars
  <2> QED
    BY <1>t, <1>5, <2>1, SyncOutcome DEF UsableInv, TypeInv, RefType
<1>6. CASE ValidCheck
  <2>1. ref' = ref /\ valid_late' = 0
    BY <1>6 DEF ValidCheck, gpsVars
  <2>2. gps_ref_valid' => ref.set /\ ref.age <= GPS_REF_MAX_AGE
    BY <1>6, Zenon DEF ValidCheck
  <2> QED
    BY <1>t, <2>1, <2>2 DEF UsableInv, TypeInv, RefType
<1>7. CASE ValidCorrect
  BY <1>t, <1>7 DEF ValidCorrect, gpsVars, UsableInv
<1>8. CASE UNCHANGED vars
  BY <1>t, <1>8 DEF vars, gpsVars, validVars, UsableInv
<1> QED
  BY <1>1, <1>2, <1>3, <1>4, <1>5, <1>6, <1>7, <1>8
     DEF Next, thread_gps, thread_valid

(* Whenever thread_down finds gps_ref_valid set, lgw_gps2cnt, whose result *)
(* it ignores, gets a reference that was set, with xtal_err in range, and  *)
(* at most one period of thread_valid older than GPS_REF_MAX_AGE.          *)
THEOREM RefAlwaysUsable == Spec => []RefUsable
<1>1. Init => UsableInv
  BY InitType DEF Init, NoRef, UsableInv
<1>2. UsableInv => RefUsable
  BY TimeRefConstants DEF UsableInv, RefUsable, TypeInv, RefType
<1> QED
  BY <1>1, <1>2, NextUsable, PTL DEF Spec

-----------------------------------------------------------------------------
(* The count of samples restarts with every check that finds the reference *)
(* invalid, and init_cpt and xtal_correct_ok follow in the critical        *)
(* section after it: in between they may lag one check behind.             *)
FreshInv ==
    /\ TypeInv
    /\ gps_ref_valid = ref_valid_local
    /\ samples <= XERR_INIT_AVG
    /\ valid_pc = "check" /\ ~ref_valid_local => init_cpt = 0 /\ ~xtal_correct_ok
    /\ ref_valid_local =>
         /\ samples < XERR_INIT_AVG =>
              init_cpt <= samples /\ (valid_pc = "correct" => init_cpt < samples)
         /\ xtal_correct_ok => samples = XERR_INIT_AVG

(* Every step preserves FreshInv.                                          *)
LEMMA NextFresh == FreshInv /\ [Next]_vars => FreshInv'
<1> SUFFICES ASSUME FreshInv, [Next]_vars PROVE FreshInv'
  OBVIOUS
<1>t. TypeInv /\ TypeInv'
  BY NextType DEF FreshInv
<1>k. ASSUME UNCHANGED <<valid_pc, ref_valid_local, init_cpt, gps_ref_valid,
                         xtal_correct_ok, samples>>
      PROVE  FreshInv'
  BY <1>t, <1>k DEF FreshInv
<1>1. CASE Second
  BY <1>k, <1>1 DEF Second
<1>2. CASE Heal
  BY <1>k, <1>2 DEF Heal, validVars
<1>3. CASE LoseMsg \/ ParseRmc \/ gps_process_sync
  BY <1>k, <1>3, Zenon DEF LoseMsg, ParseRmc, gps_process_sync, validVars
<1>4. CASE ValidCheck
  <2>1. /\ valid_pc = "check" /\ valid_pc' = "correct"
        /\ gps_ref_valid' = ref_valid_local'
        /\ init_cpt' = init_cpt /\ xtal_correct_ok' = xtal_correct_ok
        /\ samples' = IF ref_valid_local'
                        THEN IF samples < XERR_INIT_AVG THEN samples + 1 ELSE samples
                        ELSE 0
    BY <1>4, Zenon DEF ValidCheck
  <2>2. samples' <= XERR_INIT_AVG
    BY <1>t, <2>1, TimeRefConstants DEF FreshInv, TypeInv
  <2>3. ASSUME ref_valid_local'
        PROVE  /\ samples' < XERR_INIT_AVG => init_cpt' < samples'
               /\ xtal_correct_ok' => samples' = XERR_INIT_AVG
    <3>1. CASE ref_valid_local
      BY <1>t, <2>1, <2>3, <3>1, TimeRefConstants DEF FreshInv, TypeInv
    <3>2. CASE ~ref_valid_local
      BY <1>t, <2>1, <2>3, <3>2, TimeRefConstants DEF FreshInv, TypeInv
    <3> QED
      BY <3>1, <3>2
  <2>4. samples' < XERR_INIT_AVG /\ ref_valid_local' => init_cpt' <= samples'
    BY <1>t, <2>3 DEF TypeInv
  <2> QED
    BY <1>t, <2>1, <2>2, <2>3, <2>4 DEF FreshInv
<1>5. CASE ValidCorrect
  <2>1. /\ valid_pc = "correct" /\ valid_pc' = "check"
        /\ gps_ref_valid' = gps_ref_valid /\ ref_valid_local' = ref_valid_local
        /\ samples' = samples
    BY <1>5 DEF ValidCorrect
  <2>2. CASE ref_valid_local
    <3>1. init_cpt' <= init_cpt + 1
      <4>1. init_cpt' = IF init_cpt <= XERR_INIT_AVG THEN init_cpt + 1 ELSE init_cpt
        BY <1>5, <2>2, Zenon DEF ValidCorrect
      <4> QED
        BY <1>t, <4>1 DEF TypeInv
    <3>2. xtal_correct_ok' => xtal_correct_ok \/ init_cpt = XERR_INIT_AVG
      BY <1>5, <2>2, Zenon DEF ValidCorrect
    <3>3. xtal_correct_ok' => samples' = XERR_INIT_AVG
      BY <1>t, <2>1, <2>2, <3>2, TimeRefConstants DEF FreshInv, TypeInv
    <3>4. samples' < XERR_INIT_AVG => init_cpt' <= samples' /\ valid_pc' # "correct"
      <4>1. samples < XERR_INIT_AVG => init_cpt < samples
        BY <2>1, <2>2 DEF FreshInv
      <4>2. init_cpt \in Nat /\ init_cpt' \in Nat /\ samples \in Nat
        BY <1>t DEF TypeInv
      <4> QED
        BY <2>1, <3>1, <4>1, <4>2, TimeRefConstants
    <3>5. samples' <= XERR_INIT_AVG /\ gps_ref_valid' = ref_valid_local'
      BY <2>1 DEF FreshInv
    <3> QED
      BY <1>t, <2>1, <2>2, <3>3, <3>4, <3>5, Zenon DEF FreshInv
  <2>3. CASE ~ref_valid_local
    <3>1. init_cpt' = 0 /\ ~xtal_correct_ok'
      BY <1>5, <2>3 DEF ValidCorrect
    <3> QED
      BY <1>t, <2>1, <2>3, <3>1 DEF FreshInv
  <2> QED
    BY <2>2, <2>3
<1>6. CASE UNCHANGED vars
  BY <1>k, <1>6 DEF vars, validVars
<1> QED
  BY <1>1, <1>2, <1>3, <1>4, <1>5, <1>6 DEF Next, thread_gps, thread_valid

(* Although thread_valid updates gps_ref_valid and xtal_correct_ok under   *)
(* different locks, whenever both are set the correction rests on          *)
(* XERR_INIT_AVG samples taken since the reference was last invalid.       *)
THEOREM CorrectionAlwaysFresh == Spec => []CorrectionFresh
<1>1. Init => FreshInv
  <2> SUFFICES ASSUME Init PROVE FreshInv
    OBVIOUS
  <2>1. gps_ref_valid = ref_valid_local /\ ~ref_valid_local /\ ~xtal_correct_ok
    BY Zenon DEF Init
  <2>2. init_cpt = 0 /\ samples = 0 /\ samples <= XERR_INIT_AVG
    BY TimeRefConstants DEF Init
  <2> QED
    BY <2>1, <2>2, InitType DEF FreshInv
<1>2. FreshInv => CorrectionFresh
  BY DEF FreshInv, CorrectionFresh
<1> QED
  BY <1>1, <1>2, NextFresh, PTL DEF Spec

-----------------------------------------------------------------------------
(* The age at which UTC is up to date when GPS time is: RMC may come       *)
(* after NAV-TIMEGPS.                                                      *)
UtcLag == IF rmc_first THEN 0 ELSE 1

(* UTC is never newer than the messages handled so far.  While settled,    *)
(* the three parts of the reference belong to one second, a run of         *)
(* aberrant points is one of bad points, and the pulse of the reference is *)
(* not used for another point.                                             *)
SettledInv ==
    /\ TypeInv
    /\ utc >= behind + (IF rmc_first /\ msg = "ubx" THEN 0 ELSE 1)
    /\ settled =>
         /\ ref.set /\ ref.cnt = ref.gps /\ ref.utc = ref.gps + UtcLag
         /\ aber_min1 => bad_run >= 1
         /\ aber_min1 /\ aber_min2 => bad_run >= 2
         /\ ref.cnt = 0 => behind = -1 \/ (behind = 0 /\ msg = "rmc" /\ ~rmc_first)

(* A number below the modulus is its own remainder.                        *)
LEMMA ModSmall == \A c \in Nat : c < CounterWrap => c % CounterWrap = c
BY TimeRefConstants

(* While settled, and within a roll-over of the counter, a point is not    *)
(* aberrant exactly if it is good: a late or stale one has a UTC that does *)
(* not fit the counter.                                                    *)
LEMMA SettledPoint ==
    ASSUME SettledInv, settled, msg = "ubx", behind >= 0
    PROVE  /\ ~Aberrant /\ ref.cnt < CounterWrap => GoodPoint
           /\ GoodPoint /\ ref.cnt < CounterWrap => ~Aberrant
<1>1. /\ ref.cnt \in Nat /\ ref.utc \in Nat /\ utc \in Nat /\ behind \in Int
      /\ ref.set /\ ref.utc = ref.cnt + UtcLag /\ UtcLag \in 0..1
      /\ utc >= behind + UtcLag
      /\ ref.cnt # 0
  BY DEF SettledInv, TypeInv, RefType, UtcLag
<1>2. GoodPoint <=> behind = 0 /\ utc = UtcLag
  BY DEF GoodPoint, UtcLag
<1>3. SUFFICES ASSUME ref.cnt < CounterWrap PROVE Aberrant <=> ~GoodPoint
  BY <1>3
<1>4. Aberrant <=> ref.utc = utc \/ ref.cnt # ref.utc - utc
  BY <1>1, <1>3, ModSmall DEF Aberrant
<1> QED
  BY <1>1, <1>2, <1>4

(* Every step preserves SettledInv.                                        *)
LEMMA NextSettled == SettledInv /\ [Next]_vars => SettledInv'
<1> SUFFICES ASSUME SettledInv, [Next]_vars PROVE SettledInv'
  OBVIOUS
<1>t. TypeInv /\ TypeInv'
  BY NextType DEF SettledInv
<1> USE TimeRefConstants
<1>1. CASE Second
  <2>1. /\ behind' = behind + 1 /\ utc' = utc + 1
        /\ UNCHANGED <<rmc_first, msg, settled, aber_min1, aber_min2, bad_run>>
    BY <1>1 DEF Second
  <2>2. ref.set => /\ ref'.set /\ ref'.cnt = ref.cnt + 1 /\ ref'.gps = ref.gps + 1
                   /\ ref'.utc = ref.utc + 1
    BY <1>1 DEF Second
  <2> QED
    BY <1>t, <2>1, <2>2 DEF SettledInv, TypeInv, RefType, UtcLag
<1>2. CASE Heal
  BY <1>t, <1>2 DEF Heal, gpsVars, SettledInv, UtcLag
<1>3. CASE LoseMsg
  <2>1. UNCHANGED <<rmc_first, utc, ref, settled, aber_min1, aber_min2, bad_run>>
    BY <1>3 DEF LoseMsg
  <2> QED
    BY <1>t, <1>3, <2>1
       DEF LoseMsg, NextMsg, FirstMsg, SettledInv, TypeInv, RefType, UtcLag
<1>4. CASE ParseRmc
  <2>1. UNCHANGED <<rmc_first, ref, settled, aber_min1, aber_min2, bad_run>>
    BY <1>4 DEF ParseRmc
  <2> QED
    BY <1>t, <1>4, <2>1
       DEF ParseRmc, NextMsg, FirstMsg, SettledInv, TypeInv, RefType, UtcLag
<1>5. CASE gps_process_sync
  <2>1. /\ msg = "ubx" /\ behind >= 0 /\ msg' = "rmc"
        /\ behind' = IF rmc_first THEN behind - 1 ELSE behind
        /\ UNCHANGED <<rmc_first, utc>>
    BY <1>5 DEF gps_process_sync, NextMsg, FirstMsg
  <2>2. utc' >= behind' + (IF rmc_first' /\ msg' = "ubx" THEN 0 ELSE 1)
    BY <1>t, <2>1 DEF SettledInv, TypeInv
  <2>3. ASSUME settled'
        PROVE  (/\ ref.set /\ ref.cnt = ref.gps /\ ref.utc = ref.gps + UtcLag
                /\ aber_min1 => bad_run >= 1
                /\ aber_min1 /\ aber_min2 => bad_run >= 2
                /\ ref.cnt = 0 => behind = -1
                                    \/ (behind = 0 /\ msg = "rmc" /\ ~rmc_first))'
    <3>1. CASE GoodPoint /\ ~Aberrant
      <4>1. ref' = NewRef /\ ~aber_min1'
        BY <1>5, <3>1 DEF gps_process_sync, lgw_gps_sync
      <4>2. /\ NewRef.set /\ NewRef.cnt = 0 /\ NewRef.gps = 0
            /\ NewRef.utc = UtcLag /\ behind = 0 /\ UtcLag \in 0..1
        BY <3>1 DEF NewRef, GoodPoint, UtcLag
      <4>3. UtcLag' = UtcLag
        BY <2>1 DEF UtcLag
      <4> QED
        BY <1>t, <2>1, <4>1, <4>2, <4>3 DEF TypeInv
    <3>2. CASE ~(GoodPoint /\ ~Aberrant)
      <4>1. settled /\ bad_run' < 3 /\ ref.cnt < CounterWrap
        BY <1>5, <2>3, <3>2, Zenon DEF gps_process_sync
      <4>2. Aberrant /\ ~GoodPoint
        BY <2>1, <3>2, <4>1, SettledPoint
      <4>3. bad_run' = bad_run + 1 /\ bad_run < 2
        BY <1>t, <1>5, <4>1, <4>2 DEF gps_process_sync, TypeInv
      <4>4. ref' = ref /\ aber_min2' = aber_min1
        <5>1. ~(aber_min1 /\ aber_min2)
          BY <1>t, <4>1, <4>3 DEF SettledInv, TypeInv
        <5> QED
          BY <1>5, <4>2, <5>1 DEF gps_process_sync, lgw_gps_sync
      <4>5. ref.cnt # 0
        BY <2>1, <4>1 DEF SettledInv
      <4>6. UtcLag' = UtcLag
        BY <2>1 DEF UtcLag
      <4> QED
        BY <1>t, <4>1, <4>3, <4>4, <4>5, <4>6 DEF SettledInv, TypeInv
    <3> QED
      BY <3>1, <3>2
  <2> QED
    BY <1>t, <2>2, <2>3 DEF SettledInv
<1>6. CASE ValidCheck
  BY <1>t, <1>6 DEF ValidCheck, gpsVars, SettledInv, UtcLag
<1>7. CASE ValidCorrect
  BY <1>t, <1>7 DEF ValidCorrect, gpsVars, SettledInv, UtcLag
<1>8. CASE UNCHANGED vars
  BY <1>t, <1>8 DEF vars, gpsVars, SettledInv, UtcLag
<1> QED
  BY <1>1, <1>2, <1>3, <1>4, <1>5, <1>6, <1>7, <1>8
     DEF Next, thread_gps, thread_valid

(* Once a good point has agreed with the reference, up to two late or      *)
(* stale points in a row never make lgw_gps_sync store a GPS time that     *)
(* does not belong to its counter, as long as no outage outlasts a         *)
(* roll-over of the counter.                                               *)
THEOREM RefAlwaysRight == Spec => []RefStaysRight
<1>1. Init => SettledInv
  <2> SUFFICES ASSUME Init PROVE SettledInv
    OBVIOUS
  <2>1. ~settled
    BY Zenon DEF Init
  <2>2. utc >= behind + (IF rmc_first /\ msg = "ubx" THEN 0 ELSE 1)
    BY TimeRefConstants DEF Init
  <2> QED
    BY <2>1, <2>2, InitType, Zenon DEF SettledInv
<1>2. SettledInv => RefStaysRight
  <2>1. 0 % CounterWrap = 0
    BY ModSmall, TimeRefConstants
  <2> QED
    BY <2>1 DEF SettledInv, RefStaysRight, RefRight, TypeInv, RefType
<1> QED
  BY <1>1, <1>2, NextSettled, PTL DEF Spec

-----------------------------------------------------------------------------
(* The spectral scan and Listen-Before-Talk. *)

TxStates == {"FREE", "SCHEDULED", "EMITTING"}

(* The configuration is set once, before the threads start.                *)
LEMMA ConfKept == [ScanNext]_scanVars => UNCHANGED confVars
BY DEF ScanNext, scanVars

(* The types that the other invariants need.                               *)
TxTypes ==
    /\ chain \in Chains
    /\ tx \in [Chains -> TxStates]
    /\ last \in [Chains -> BOOLEAN]
    /\ outcome \in [Chains -> {"none", "ok", "fail"}]

(* The state of each chain is one of three.                                *)
LEMMA NextTxTypes == TxTypes /\ [ScanNext]_scanVars => TxTypes'
<1> SUFFICES ASSUME TxTypes, [ScanNext]_scanVars PROVE TxTypes'
  OBVIOUS
<1>1. ASSUME NEW c \in Chains, TxStart(c) \/ TxEnd(c) PROVE TxTypes'
  BY <1>1 DEF TxStart, TxEnd, jitVars, TxTypes, TxStates
<1>2. ASSUME NEW c \in Chains, JitCheck(c) PROVE TxTypes'
  BY <1>2 DEF JitCheck, txVars, TxTypes
<1>3. CASE JitSend
  <2>1. chain' = chain
    BY <1>3 DEF JitSend
  <2>2. tx' \in [Chains -> TxStates]
    BY <1>3 DEF JitSend, Untriggered, TxTypes, TxStates
  <2>3. last' \in [Chains -> BOOLEAN]
    BY <1>3, Zenon DEF JitSend, TxTypes
  <2>4. outcome' \in [Chains -> {"none", "ok", "fail"}]
    BY <1>3 DEF JitSend, TxTypes
  <2> QED
    BY <2>1, <2>2, <2>3, <2>4 DEF TxTypes
<1>4. CASE LbtAbort
  BY <1>4 DEF LbtAbort, TxTypes, TxStates
<1>5. CASE LbtResult \/ LbtTimeout \/ LbtClear \/ LbtStop
  BY <1>5 DEF LbtResult, LbtTimeout, LbtClear, LbtStop, txVars, TxTypes
<1>6. CASE thread_spectral_scan \/ ScanDone \/ UNCHANGED scanVars
  BY <1>6
  DEF thread_spectral_scan, SsPace, SsSkip, SsStart, SsFails, SsPoll, SsResults,
      ScanDone, scanVars, jitVars, txVars, TxTypes
<1> QED
  BY <1>1, <1>2, <1>3, <1>4, <1>5, <1>6 DEF ScanNext, thread_jit, lgw_lbt

(* Every chain starts free.                                                *)
LEMMA InitTxTypes == ScanInit => TxTypes
BY DEF ScanInit, TxTypes, TxStates

-----------------------------------------------------------------------------
(* Without faults, thread_jit aborts a scan before it schedules a packet.  *)
LEMMA NextNoScan ==
    ASSUME ~faults, TxTypes, NoScanDuringTx, [ScanNext]_scanVars
    PROVE  NoScanDuringTx'
<1>0. UNCHANGED confVars
  BY ConfKept
<1> USE <1>0 DEF confVars
<1>1. ASSUME NEW c \in Chains, TxStart(c) \/ TxEnd(c) PROVE NoScanDuringTx'
  BY <1>1 DEF TxStart, TxEnd, sxVars, NoScanDuringTx
<1>2. ASSUME NEW c \in Chains, JitCheck(c) PROVE NoScanDuringTx'
  BY <1>2 DEF JitCheck, sxVars, txVars, NoScanDuringTx
<1>3. CASE JitSend
  <2>1. \A ab \in Aborted : ab[1] = "idle"
    BY DEF Aborted
  <2>2. mode' \in {"idle", "lbt"}
    BY <1>3, <2>1 DEF JitSend
  <2> QED
    BY <2>2 DEF NoScanDuringTx
<1>4. CASE LbtAbort
  BY <1>4 DEF LbtAbort, sxVars, NoScanDuringTx, TxTypes
<1>7. CASE LbtStop
  BY <1>7 DEF LbtStop, NoScanDuringTx
<1>8. CASE LbtResult \/ LbtTimeout \/ LbtClear
  BY <1>8 DEF LbtResult, LbtTimeout, LbtClear, sxVars, txVars, NoScanDuringTx
<1>5. CASE SsStart \/ ScanDone
  BY <1>5 DEF SsStart, ScanDone, txVars, NoScanDuringTx
<1>6. CASE UNCHANGED <<sxVars, txVars>>
  BY <1>6 DEF sxVars, txVars, NoScanDuringTx
<1> QED
  BY <1>1, <1>2, <1>3, <1>4, <1>5, <1>6, <1>7, <1>8
  DEF ScanNext, thread_jit, lgw_lbt, thread_spectral_scan, SsPace, SsSkip, SsFails,
      SsPoll, SsResults, scanVars

(* No scan runs while a packet is scheduled or sent, provided that the     *)
(* concentrator can be accessed.                                           *)
THEOREM ScansAlone == ScanSpec => []NoScanDuringTx
<1>1. ScanInit => TxTypes /\ NoScanDuringTx
  BY InitTxTypes DEF ScanInit, NoScanDuringTx
<1>2. /\ TxTypes /\ NoScanDuringTx
      /\ [ScanNext]_scanVars
      => (TxTypes /\ NoScanDuringTx)'
  <2> SUFFICES ASSUME TxTypes, NoScanDuringTx, [ScanNext]_scanVars, ~faults
               PROVE  NoScanDuringTx'
    BY NextTxTypes, ConfKept DEF NoScanDuringTx, confVars
  <2> QED
    BY NextNoScan
<1> QED
  BY <1>1, <1>2, PTL DEF ScanSpec

-----------------------------------------------------------------------------
(* The results that the thread is about to print are those of the          *)
(* frequency it asked for.                                                 *)
FrequencyInv ==
    /\ ss_pc = "poll" /\ scan_status = "COMPLETED" => result_freq = freq_hz
    /\ ss_pc = "results" => result_freq = freq_hz
    /\ ss_pc \in {"poll", "results"} /\ mode = "scan" => scan_freq = freq_hz

(* An abort never sets the status to completed, nor starts a scan.         *)
LEMMA NextFrequencyInv == FrequencyInv /\ [ScanNext]_scanVars => FrequencyInv'
<1> SUFFICES ASSUME FrequencyInv, [ScanNext]_scanVars PROVE FrequencyInv'
  OBVIOUS
<1>1. CASE thread_spectral_scan
  BY <1>1
  DEF thread_spectral_scan, SsPace, SsSkip, SsStart, SsFails, SsPoll, SsResults,
      sxVars, FrequencyInv
<1>2. CASE ScanDone
  BY <1>2 DEF ScanDone, ssVars, FrequencyInv
<1>3. CASE JitSend
  <2>1. \A ab \in Aborted : ab[2] \in {"ABORTED", scan_status}
                            /\ ab[1] \in {"idle", mode}
    BY DEF Aborted
  <2>2. /\ scan_status' \in {"ABORTED", scan_status}
        /\ mode' \in {"idle", "lbt", mode}
        /\ UNCHANGED <<ss_pc, freq_hz, scan_freq, result_freq>>
    BY <1>3, <2>1 DEF JitSend, ssVars
  <2> QED
    BY <2>2 DEF FrequencyInv
<1>4. CASE lgw_lbt
  <2>1. /\ mode' \in {"idle", mode}
        /\ UNCHANGED <<ss_pc, freq_hz, scan_freq, scan_status, result_freq>>
    BY <1>4
    DEF lgw_lbt, LbtResult, LbtTimeout, LbtClear, LbtAbort, LbtStop, ssVars, sxVars
  <2> QED
    BY <2>1 DEF FrequencyInv
<1>5. CASE UNCHANGED <<ssVars, sxVars>>
  BY <1>5 DEF ssVars, sxVars, FrequencyInv
<1> QED
  BY <1>1, <1>2, <1>3, <1>4, <1>5
  DEF ScanNext, TxStart, TxEnd, thread_jit, JitCheck, scanVars

(* A frequency is left only with the results of a whole scan of it, also   *)
(* when the radio cannot be accessed at times.                             *)
THEOREM FrequenciesKept == ScanSpec => NoFrequencySkipped
<1>1. ScanInit => FrequencyInv
  BY DEF ScanInit, FrequencyInv
<1>2. ASSUME FrequencyInv, [ScanNext]_scanVars
      PROVE  freq_hz' # freq_hz => result_freq = freq_hz
  BY <1>2
  DEF FrequencyInv, ScanNext, thread_spectral_scan, SsPace, SsSkip, SsStart, SsFails,
      SsPoll, SsResults, ScanDone, TxStart, TxEnd, thread_jit, JitCheck,
      JitSend, lgw_lbt, LbtResult, LbtTimeout, LbtClear, LbtAbort, LbtStop,
      scanVars, ssVars
<1> QED
  BY <1>1, <1>2, NextFrequencyInv, PTL DEF ScanSpec, NoFrequencySkipped

-----------------------------------------------------------------------------
(* With LBT a packet is scheduled only while lgw_send waits for the result *)
(* or has yet to abort it, and until lgw_send is done the SX1261 listens.  *)
LbtInv ==
    /\ jit_pc \in {"lbt", "clear", "abort", "stop"} =>
         lbt_enable /\ mode = "lbt" /\ mx_concent = "jit" /\ outcome[chain] = "none"
    /\ lbt_enable => \A c \in Chains : tx[c] = "SCHEDULED"
                                  => jit_pc \in {"lbt", "clear", "abort"} /\ c = chain
    /\ jit_pc = "lbt" /\ agc # "none" => tx[chain] # "SCHEDULED"
    /\ FailedNotLeft

FaultlessInv == TxTypes /\ (~faults => LbtInv)

(* The packet is aborted before the SX1261 ceases to listen.               *)
LEMMA NextLbtInv ==
    ASSUME ~faults, TxTypes, LbtInv, [ScanNext]_scanVars
    PROVE  LbtInv'
<1>0. UNCHANGED confVars
  BY ConfKept
<1> USE <1>0 DEF confVars
<1>1. ASSUME NEW c \in Chains, TxStart(c) \/ TxEnd(c) PROVE LbtInv'
  <2>1. UNCHANGED <<jit_pc, chain, mx_concent, mode, last, outcome>>
    BY <1>1 DEF TxStart, TxEnd, jitVars, sxVars
  <2>2. \A d \in Chains : tx'[d] = "SCHEDULED" => tx[d] = "SCHEDULED"
    BY <1>1 DEF TxStart, TxEnd, TxTypes
  <2>3. CASE TxStart(c) /\ c = chain
    BY <2>1, <2>2, <2>3 DEF TxStart, LbtInv, FailedNotLeft, TxTypes
  <2>4. CASE agc' = agc
    BY <2>1, <2>2, <2>4 DEF LbtInv, FailedNotLeft, TxTypes
  <2> QED
    BY <1>1, <2>3, <2>4 DEF TxStart, TxEnd
<1>3. ASSUME NEW c \in Chains, JitCheck(c) PROVE LbtInv'
  BY <1>3 DEF JitCheck, sxVars, txVars, LbtInv, FailedNotLeft
<1>4. CASE JitSend
  <2>1. /\ jit_pc = "send" /\ chain' = chain
        /\ lbt_enable => \A c \in Chains : tx[c] # "SCHEDULED"
    BY <1>4 DEF JitSend, LbtInv
  <2>2. CASE /\ lbt_enable \/ faults
             /\ tx' \in Untriggered(chain)
             /\ last' = [last EXCEPT ![chain] = FALSE]
             /\ outcome' = [outcome EXCEPT ![chain] = "fail"]
             /\ jit_pc' = "peek"
             /\ UNCHANGED <<mx_concent, agc>>
    <3>1. /\ \A c \in Chains : tx'[c] = tx[c]
          /\ \A c \in Chains : c # chain => last'[c] = last[c]
                                            /\ outcome'[c] = outcome[c]
          /\ last'[chain] = FALSE
      BY <2>1, <2>2 DEF Untriggered, TxTypes
    <3> QED
      BY <2>1, <2>2, <3>1 DEF LbtInv, FailedNotLeft
  <2>3. CASE /\ tx' = [tx EXCEPT ![chain] = "SCHEDULED"]
             /\ lbt_enable
             /\ mode' = "lbt" /\ agc' = "none"
             /\ jit_pc' = "lbt" /\ mx_concent' = "jit"
             /\ last' = [last EXCEPT ![chain] = TRUE]
             /\ outcome' = [outcome EXCEPT ![chain] = "none"]
    <3>1. /\ tx'[chain] = "SCHEDULED" /\ outcome'[chain] = "none"
          /\ \A c \in Chains : c # chain => /\ tx'[c] = tx[c]
                                            /\ last'[c] = last[c]
                                            /\ outcome'[c] = outcome[c]
      BY <2>3 DEF TxTypes
    <3> QED
      BY <2>1, <2>3, <3>1 DEF LbtInv, FailedNotLeft
  <2>4. CASE /\ tx' = [tx EXCEPT ![chain] = "SCHEDULED"]
             /\ ~lbt_enable /\ jit_pc' = "peek"
             /\ last' = [last EXCEPT ![chain] = TRUE]
             /\ outcome' = [outcome EXCEPT ![chain] = "ok"]
             /\ UNCHANGED <<agc, mx_concent>>
    <3>1. /\ outcome'[chain] = "ok"
          /\ \A c \in Chains : c # chain => /\ tx'[c] = tx[c]
                                            /\ last'[c] = last[c]
                                            /\ outcome'[c] = outcome[c]
      BY <2>4 DEF TxTypes
    <3> QED
      BY <2>1, <2>4, <3>1 DEF LbtInv, FailedNotLeft
  <2> QED
    BY <1>4, <2>2, <2>3, <2>4 DEF JitSend
<1>5. CASE LbtResult \/ LbtTimeout \/ LbtClear
  <2>1. /\ jit_pc \in {"lbt", "clear"} /\ jit_pc' \in {"clear", "abort", "stop"}
        /\ jit_pc' = "stop" => jit_pc = "lbt" /\ agc # "none"
        /\ UNCHANGED <<chain, mx_concent, mode, tx, last, outcome>>
    BY <1>5 DEF LbtResult, LbtTimeout, LbtClear, sxVars, txVars
  <2>2. jit_pc' = "stop" => \A c \in Chains : tx[c] # "SCHEDULED"
    BY <2>1 DEF LbtInv
  <2> QED
    BY <2>1, <2>2 DEF LbtInv, FailedNotLeft
<1>6. CASE LbtAbort
  <2>1. /\ jit_pc = "abort" /\ jit_pc' = "stop"
        /\ tx' = [tx EXCEPT ![chain] = IF @ = "SCHEDULED" THEN "FREE" ELSE @]
        /\ UNCHANGED <<chain, mx_concent, mode, last, outcome>>
    BY <1>6 DEF LbtAbort, sxVars
  <2>2. \A c \in Chains : tx'[c] # "SCHEDULED"
    BY <2>1 DEF LbtInv, TxTypes
  <2> QED
    BY <2>1, <2>2 DEF LbtInv, FailedNotLeft
<1>9. CASE LbtStop
  <2>1. /\ jit_pc = "stop" /\ jit_pc' = "peek" /\ UNCHANGED tx
    BY <1>9 DEF LbtStop
  <2>2. \A c \in Chains : tx'[c] # "SCHEDULED"
    BY <2>1 DEF LbtInv
  <2> QED
    BY <2>1, <2>2 DEF LbtInv, FailedNotLeft
<1>7. CASE SsStart \/ ScanDone
  <2>1. /\ jit_pc \notin {"lbt", "clear", "abort", "stop"}
        /\ UNCHANGED <<jit_pc, chain, mx_concent, tx, agc, last, outcome>>
    BY <1>7 DEF SsStart, ScanDone, LbtInv, jitVars, txVars
  <2> QED
    BY <2>1 DEF LbtInv, FailedNotLeft
<1>8. CASE UNCHANGED <<jitVars, sxVars, txVars>>
  BY <1>8 DEF jitVars, sxVars, txVars, LbtInv, FailedNotLeft
<1> QED
  BY <1>1, <1>3, <1>4, <1>5, <1>6, <1>7, <1>8, <1>9
  DEF ScanNext, thread_jit, lgw_lbt, thread_spectral_scan, SsPace, SsSkip, SsFails,
      SsPoll, SsResults, scanVars

(* Nothing is scheduled.                                                   *)
LEMMA InitFaultlessInv == ScanInit => FaultlessInv
BY InitTxTypes DEF ScanInit, FaultlessInv, LbtInv, FailedNotLeft

(* LbtInv is kept as long as no access fails; faults never changes.        *)
LEMMA NextFaultlessInv == FaultlessInv /\ [ScanNext]_scanVars => FaultlessInv'
BY NextTxTypes, NextLbtInv, ConfKept DEF FaultlessInv, confVars

(* A packet whose lgw_send failed is not left with the radio, provided     *)
(* that the concentrator can be accessed.                                  *)
THEOREM FailedNeverLeft == ScanSpec => []FailedNotLeft
<1>1. FaultlessInv => FailedNotLeft
  BY DEF FaultlessInv, LbtInv, FailedNotLeft
<1> QED
  BY <1>1, InitFaultlessInv, NextFaultlessInv, PTL DEF ScanSpec

(* With LBT a packet goes on the air only while the SX1261 listens, also   *)
(* when lgw_send has given up waiting for it, provided that the            *)
(* concentrator can be accessed.                                           *)
THEOREM ListensBeforeTalk == ScanSpec => ListenBeforeTalk
<1>2. ASSUME ~faults, lbt_enable, TxTypes, LbtInv, [ScanNext]_scanVars,
             NEW c \in Chains, tx[c] # "EMITTING", tx'[c] = "EMITTING"
      PROVE  mode = "lbt"
  <2>1. ASSUME NEW d \in Chains, TxStart(d) PROVE mode = "lbt"
    BY <1>2, <2>1 DEF TxStart, LbtInv
  <2>2. ASSUME NEW d \in Chains, TxEnd(d) PROVE FALSE
    BY <1>2, <2>2 DEF TxEnd, TxTypes
  <2>3. CASE JitSend
    BY <1>2, <2>3 DEF JitSend, Untriggered, TxTypes
  <2>4. CASE LbtAbort
    BY <1>2, <2>4 DEF LbtAbort, TxTypes
  <2>5. CASE UNCHANGED tx
    BY <1>2, <2>5
  <2> QED
    BY <1>2, <2>1, <2>2, <2>3, <2>4, <2>5
    DEF ScanNext, thread_jit, JitCheck, lgw_lbt, LbtResult, LbtTimeout, LbtClear,
        LbtStop, thread_spectral_scan, SsPace, SsSkip, SsStart, SsFails, SsPoll,
        SsResults, ScanDone, scanVars, txVars
<1>3. FaultlessInv /\ [ScanNext]_scanVars =>
        [lbt_enable /\ ~faults => \A c \in Chains : tx[c] # "EMITTING" /\ tx'[c] = "EMITTING"
                              => mode = "lbt"]_scanVars
  BY <1>2 DEF FaultlessInv
<1> QED
  BY <1>3, InitFaultlessInv, NextFaultlessInv, PTL DEF ScanSpec, ListenBeforeTalk

=============================================================================

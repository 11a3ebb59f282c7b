-------------------------------- MODULE Plca --------------------------------
(***************************************************************************)
(* The supervision of PLCA: T1S_CheckPlcaStatus asks the MAC-PHY once a    *)
(* second whether PLCA is active, T1S_OnPlcaStatus keeps (and displays)    *)
(* the answer.  The deadline is compared with the millisecond clock        *)
(* without regard to the wrap of either.  now is the clock at the last     *)
(* call, and calls are at most MaxStall apart.                             *)
(*                                                                         *)
(* External: TC6's queue of register accesses, and the MAC-PHY, which      *)
(* leaves and re-enters PLCA mode as it likes.                             *)
(***************************************************************************)
EXTENDS MsClock

CONSTANTS
  BeaconDelay, \* DELAY_BEACON_CHECK (1000)
  RegSize      \* REG_OP_ARRAY_SIZE (4)

ASSUME PlcaConstants ==
  /\ BeaconDelay \in Nat \ {0} /\ MaxStall \in Nat \ {0}
  /\ RegSize \in Nat \ {0}
  /\ W \in Nat /\ BeaconDelay + 2 * MaxStall < W

VARIABLES
  nextBeaconCheck, lastBeaconState,
  pending,          \* TC6: status reads not yet answered
  plca,             \* MAC-PHY: PLCA mode is active
  \* Auxiliary, both up to Long:
  lapse,            \* time since the last check
  spacing           \* time between the last two checks

plcaVars ==
  <<now, nextBeaconCheck, lastBeaconState, pending, plca, lapse, spacing>>

Long == BeaconDelay + MaxStall + 1
Capped(t) == IF t > Long THEN Long ELSE t

\* The first iteration after T1S_init, which may have taken some time.
PlcaInit ==
  /\ now \in 0 .. (BeaconDelay + MaxStall)
  /\ nextBeaconCheck = BeaconDelay
  /\ lastBeaconState = FALSE
  /\ pending = 0
  /\ plca \in BOOLEAN
  /\ lapse = now /\ spacing = Long

-----------------------------------------------------------------------------
\* Mutant: the check takes place in its millisecond or not at all.
Due_Exact(t) == t = nextBeaconCheck + 1

\* Is it time for a check?
Due(t) == t > nextBeaconCheck

\* Mutant: the deadlines are kept on a raster.
NextCheck_Raster(t) == (nextBeaconCheck + BeaconDelay) % W

NextCheck(t) == (t + BeaconDelay) % W

\* T1S_CheckPlcaStatus, d ms after the last call.  The request is refused
\* if the queue is full.
T1S_CheckPlcaStatus(d) ==
  LET t == (now + d) % W IN
  /\ now' = t
  /\ \/ /\ Due(t)
        /\ nextBeaconCheck' = NextCheck(t)
        /\ pending' = IF pending < RegSize THEN pending + 1 ELSE pending
        /\ lapse' = 0 /\ spacing' = Capped(lapse + d)
     \/ /\ ~Due(t)
        /\ lapse' = Capped(lapse + d)
        /\ UNCHANGED <<nextBeaconCheck, pending, spacing>>
  /\ UNCHANGED <<lastBeaconState, plca>>

\* Mutant: a failed read is taken for CSMA/CD mode.
StateAfter_Failed(success) == success /\ plca

StateAfter(success) == IF success THEN plca ELSE lastBeaconState

\* OnPlcaStatus of tc6-lwip.c and T1S_OnPlcaStatus, from TC6LwIP_Service.
T1S_OnPlcaStatus(success) ==
  /\ pending > 0 /\ pending' = pending - 1
  /\ lastBeaconState' = StateAfter(success)
  /\ UNCHANGED <<now, nextBeaconCheck, plca, lapse, spacing>>

ModeChanges ==
  /\ plca' = ~plca
  /\ UNCHANGED <<now, nextBeaconCheck, lastBeaconState, pending, lapse,
                 spacing>>

PlcaNext ==
  \/ \E d \in 0 .. MaxStall : T1S_CheckPlcaStatus(d)
  \/ \E success \in BOOLEAN : T1S_OnPlcaStatus(success)
  \/ ModeChanges

\* The loop goes on, time passes in it, and of the reads that are answered
\* not all fail.
Fairness ==
  /\ WF_plcaVars(\E d \in 1 .. MaxStall : T1S_CheckPlcaStatus(d))
  /\ SF_plcaVars(T1S_OnPlcaStatus(TRUE))

PlcaSpec == PlcaInit /\ [][PlcaNext]_plcaVars /\ Fairness

-----------------------------------------------------------------------------
(***************************************************************************)
(* Properties                                                              *)
(***************************************************************************)
\* The loop may step over a deadline this close to the wrap of the clock;
\* then T1S_CheckPlcaStatus waits for a whole period of the clock, and for
\* the deadline W - 1 for ever.
Blind == nextBeaconCheck >= W - MaxStall

\* Status checks go on, each at most a stall after its time, whatever the
\* clock does; the only exception is a deadline just before the wrap.
ChecksGoOn == lapse <= BeaconDelay + MaxStall \/ Blind

\* Status checks do not crowd the register queue: they are further apart
\* than DELAY_BEACON_CHECK, except in the last DELAY_BEACON_CHECK ms before
\* the wrap, when the deadline has wrapped and the clock has not.
ChecksSpaced == spacing <= BeaconDelay => nextBeaconCheck < BeaconDelay

\* The state displayed is that of the MAC-PHY as soon as that is stable,
\* failed and refused reads notwithstanding, unless the supervision is
\* blind.
StatusFollows ==
  \A v \in BOOLEAN : <>[](plca = v) => <>[](lastBeaconState = v \/ Blind)
=============================================================================

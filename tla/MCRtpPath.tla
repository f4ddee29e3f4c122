----------------------------- MODULE MCRtpPath -----------------------------
(***************************************************************************)
(* Small instances of the video path.                                      *)
(***************************************************************************)
EXTENDS RtpPath

CONSTANTS MaxWire,        \* bound: packets sent in a run
          MaxHeld         \* bound: NALs the receiver collects (a duplicated
                          \* parameter set is buffered again each time)

N(t, k) == [type |-> t, of |-> k]

\* One slice per access unit, with and without parameter sets.
OneSlice == { <<N("SPS", 1), N("IDR", 2)>>, <<N("slice", 1)>>, <<N("slice", 3)>> }

\* With parameter sets and without, both in several fragments.
FragmentedSlices == { <<N("SPS", 1), N("IDR", 2)>>, <<N("slice", 3)>> }

\* Without parameter sets, but for those of a redirect.
LoneSlices == { <<N("slice", 3)>> }

MCNext ==
    /\ Next
    /\ Len(wire') <= MaxWire
    /\ Len(frameBuf') + Len(pendingParams') <= MaxHeld
MCSpec == Init /\ [][MCNext]_vars
MCFairSpec == MCSpec /\ Fairness
=============================================================================

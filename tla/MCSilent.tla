------------------------------ MODULE MCSilent ------------------------------
(***************************************************************************)
(* Silent and NormalSampler for TLC: the two places SampleCache and        *)
(* SingleSampler ask, and the two checks of CheckWindow.  They share no    *)
(* state, so one of them is explored at a time.  Urls do not interact      *)
(* either: one is enough where callers race.  One object per caller and    *)
(* one for the map are all there can be in use, so that Store always finds *)
(* an unused one.                                                          *)
(***************************************************************************)
EXTENDS Silent

CONSTANTS Samplers, Duration, Threshold, Ignore, Default, Wait

ASSUME NormalAssumption == Wait \in Nat

VARIABLES
  part,     \* the sampler that is explored
  sampler, thresholdValues, collected, normalWindow, normalPc, normalUrl,
  normalDoomed, taken, since, raced

normalVars == <<sampler, thresholdValues, collected, normalWindow, normalPc, normalUrl,
                normalDoomed, taken, since, raced>>

NS == INSTANCE NormalSampler
        WITH nextWindow <- normalWindow, pc <- normalPc, url <- normalUrl, doomed <- normalDoomed

MCInit ==
  /\ part \in {"silent", "normal"}
  /\ Init /\ NS!Init
  /\ part = "silent" => sampler = "top"
  /\ part = "normal" => mode = "window"

SilentPart(A) == part = "silent" /\ A /\ UNCHANGED <<part, normalVars>>

NormalPart(A) == part = "normal" /\ A /\ UNCHANGED <<part, vars>>

MCVars == <<part, vars, normalVars>>

\* Time passes and the ticker goroutine runs.
MCSpec ==
  /\ MCInit /\ [][SilentPart(Next) \/ NormalPart(NS!Next)]_MCVars
  /\ WF_MCVars(SilentPart(Second))
  /\ WF_MCVars(SilentPart(CheckAndResetSilent \/ DeleteExpired))

\* The property of NormalSampler: normal samples of a url are as far apart as
\* configured.
NormalSpaced == NS!NormalSpaced
=============================================================================

----------------------------- MODULE ProfileDetector -----------------------------
(***************************************************************************)
(* The detector of persistent changes of a device's coarse behaviour       *)
(* (internal/anomaly/device_profile.go).  A window is the first batch of a *)
(* minute that is not the minute of the window before it, and is reduced   *)
(* to a signature.  Signatures are abstract: what deviceProfileSignature   *)
(* distinguishes.                                                          *)
(***************************************************************************)
EXTENDS DetectorTable

CONSTANTS
  Signatures,        (* deviceProfileSignature: the services of the ports, *)
                     (* the protocols and the number of destinations, rounded *)
  NoSignature,       (* the empty string                                   *)
  ProfileLearning,   (* profileLearningWindows: 12                         *)
  ProfileDominance,  (* profileDominanceWindows: 9                         *)
  ProfileConfirm,    (* profileConfirmWindows: 3                           *)
  MaxSignatures      (* profileMaxSignatures: 8                            *)

(* Only one signature can reach the dominance of a learning phase, so the  *)
(* order in which the code breaks ties decides nothing.                    *)
ASSUME ProfileAssumption ==
  /\ NoSignature \notin Signatures
  /\ ProfileLearning \in Nat \ {0, 1}
  /\ ProfileDominance \in 1..ProfileLearning
  /\ 2 * ProfileDominance > ProfileLearning
  /\ ProfileConfirm \in Nat \ {0, 1}
  /\ MaxSignatures \in Nat \ {0}

VARIABLES deviceProfiles, profileWatermark
profileVars == <<deviceProfiles, profileWatermark>>

(* windows is a history field: the signatures of the last windows counted. *)
DeviceFeatureProfiles ==
  [baseline: Signatures \cup {NoSignature},
   learning: [Signatures -> 0..ProfileLearning], learningWindows: 0..ProfileLearning,
   candidate: Signatures \cup {NoSignature}, candidateWindows: 0..ProfileConfirm,
   lastBucket: Minutes \cup {NoTime}, lastSeen: Minutes \cup {NoTime},
   windows: Seq(Signatures)]

NothingLearned == [s \in Signatures |-> 0]
FreshProfile ==
  [baseline |-> NoSignature, learning |-> NothingLearned, learningWindows |-> 0,
   candidate |-> NoSignature, candidateWindows |-> 0,
   lastBucket |-> NoTime, lastSeen |-> NoTime, windows |-> <<>>]

ProfileTypeOK ==
  /\ IsTable(deviceProfiles, Devices, DeviceFeatureProfiles, MaxDevices)
  /\ profileWatermark \in Minutes \cup {NoTime}

ProfileInit == deviceProfiles = <<>> /\ profileWatermark = NoTime

-------------------------------------------------------------------------------
SignaturesFull(p, s) ==
  /\ p.learning[s] = 0
  /\ Cardinality({x \in Signatures : p.learning[x] > 0}) >= MaxSignatures

(* The twelfth window ends the learning, or starts it again.               *)
LearnSignature(p, s) ==
  LET counts == [p.learning EXCEPT ![s] = @ + 1]
      Dominant == {x \in Signatures : counts[x] >= ProfileDominance}
  IN IF p.learningWindows + 1 < ProfileLearning
     THEN [p EXCEPT !.learning = counts, !.learningWindows = @ + 1]
     ELSE [p EXCEPT !.learning = NothingLearned, !.learningWindows = 0,
                    !.baseline = IF Dominant = {} THEN NoSignature
                                 ELSE CHOOSE x \in Dominant : TRUE]

CandidateSurvivesBaseline(p) == p
DropCandidate(p) == [p EXCEPT !.candidate = NoSignature, !.candidateWindows = 0]

CompareSignature(p, s) ==
  CASE s = p.baseline -> DropCandidate(p)
    [] s \notin {p.baseline, p.candidate} ->
         [p EXCEPT !.candidate = s, !.candidateWindows = 1]
    [] s # p.baseline /\ s = p.candidate /\ p.candidateWindows + 1 < ProfileConfirm ->
         [p EXCEPT !.candidateWindows = @ + 1]
    [] OTHER -> [p EXCEPT !.baseline = s, !.candidate = NoSignature, !.candidateWindows = 0]

CountWindow(p, s, t) ==
  LET seen == [p EXCEPT !.lastBucket = t, !.lastSeen = t]
      counted == [seen EXCEPT !.windows = LastOf(Append(@, s), ProfileConfirm)]
  IN CASE p.baseline # NoSignature -> CompareSignature(counted, s)
       [] p.baseline = NoSignature /\ SignaturesFull(p, s) -> seen
       [] OTHER -> LearnSignature(counted, s)

(* observeDeviceProfile.                                                   *)
ProfileTable(t) == Pruned(deviceProfiles, t, profileWatermark)
ObserveDeviceProfile(ip, s, t) ==
  LET table == ProfileTable(t)
      p == Entry(table, ip, FreshProfile)
  IN /\ profileWatermark' = Later(t, profileWatermark)
     /\ deviceProfiles' = CASE ~Admits(table, ip) -> table
                            [] t = p.lastBucket -> table
                            [] OTHER -> With(table, ip, CountWindow(p, s, t))

(* It reports a change when it replaces a baseline.                        *)
ReplacesBaseline(ip, s, t) ==
  LET p == Entry(ProfileTable(t), ip, FreshProfile)
  IN /\ Admits(ProfileTable(t), ip)
     /\ t # p.lastBucket
     /\ p.baseline # NoSignature
     /\ CountWindow(p, s, t).baseline # p.baseline

-------------------------------------------------------------------------------
(* "A different signature must then repeat for 3 consecutive windows       *)
(* before alerting.  A return to baseline resets the candidate change":    *)
(* the baseline is replaced only when every one of the last windows showed *)
(* the new signature (observeDeviceProfile, through learning, pruning and  *)
(* late rows).                                                             *)
ProfileChangeConfirmed ==
  [][\A ip \in DOMAIN deviceProfiles \cap DOMAIN deviceProfiles' :
       LET old == deviceProfiles[ip].baseline
           new == deviceProfiles'[ip].baseline
       IN old # NoSignature /\ new \notin {old, NoSignature} =>
            deviceProfiles'[ip].windows = [i \in 1..ProfileConfirm |-> new]]_profileVars
===============================================================================

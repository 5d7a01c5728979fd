------------------------------ MODULE PeerDetector ------------------------------
(***************************************************************************)
(* The detector of new east-west communication                             *)
(* (internal/anomaly/internal_peer.go).  Peers are the positive numbers in *)
(* the alphabetical order of their addresses, which decides which unknown  *)
(* peer of a window is looked at.                                          *)
(***************************************************************************)
EXTENDS DetectorTable

CONSTANTS
  PeerLearning,  (* internalPeerLearningWindows: 12                        *)
  PeerConfirm    (* internalPeerConfirmWindows: 2                          *)

ASSUME PeerAssumption ==
  /\ PeerLearning \in Nat \ {0}
  /\ PeerConfirm \in Nat \ {0, 1}

NoPeer == 0

VARIABLES internalPeerProfiles, internalPeerWatermark
peerVars == <<internalPeerProfiles, internalPeerWatermark>>

(* Two history fields: windows, the peers of the last windows counted, and *)
(* reports, how often a peer was reported, two standing for more.          *)
InternalPeerProfiles ==
  [known: SUBSET Peers, learning: SUBSET Peers, learningWindows: 0..PeerLearning,
   candidate: Peers \cup {NoPeer}, candidateWindows: 0..PeerConfirm,
   lastBucket: Minutes \cup {NoTime}, lastSeen: Minutes \cup {NoTime},
   windows: Seq(SUBSET Peers), reports: [Peers -> 0..2]]

FreshPeerProfile ==
  [known |-> {}, learning |-> {}, learningWindows |-> 0,
   candidate |-> NoPeer, candidateWindows |-> 0,
   lastBucket |-> NoTime, lastSeen |-> NoTime,
   windows |-> <<>>, reports |-> [p \in Peers |-> 0]]

PeerTypeOK ==
  /\ IsTable(internalPeerProfiles, Devices, InternalPeerProfiles, MaxDevices)
  /\ \A ip \in DOMAIN internalPeerProfiles :
       Cardinality(internalPeerProfiles[ip].known) <= MaxPeers
  /\ internalPeerWatermark \in Minutes \cup {NoTime}

PeerInit == internalPeerProfiles = <<>> /\ internalPeerWatermark = NoTime

-------------------------------------------------------------------------------
Learning(profile) == profile.learningWindows < PeerLearning

(* The peers of a window are walked in any order until the set is full.    *)
LearnPeers(profile, peers) ==
  LET union == profile.learning \cup peers
      Room == Min({MaxPeers, Cardinality(union)})
      Learned == {S \in SUBSET union : profile.learning \subseteq S /\ Cardinality(S) = Room}
  IN {IF profile.learningWindows + 1 = PeerLearning
      THEN [profile EXCEPT !.known = S, !.learning = {}, !.learningWindows = @ + 1]
      ELSE [profile EXCEPT !.learning = S, !.learningWindows = @ + 1] : S \in Learned}

(* firstUnknownInternalPeer.                                               *)
Unknown(profile, peers) == peers \ profile.known
FirstUnknown(profile, peers) == Min(Unknown(profile, peers))

KeepsCandidate(profile) == profile
ForgetsCandidate(profile) == [profile EXCEPT !.candidate = NoPeer, !.candidateWindows = 0]

Confirms(profile, peers) ==
  /\ ~Learning(profile)
  /\ Unknown(profile, peers) # {}
  /\ FirstUnknown(profile, peers) = profile.candidate
  /\ profile.candidateWindows + 1 >= PeerConfirm

(* A confirmed peer becomes known if there is room for it.                 *)
LearnsReportedOffByOne(profile, peer) ==
  IF Cardinality(profile.known) + 1 < MaxPeers THEN {peer} ELSE {}
LearnsReported(profile, peer) ==
  IF Cardinality(profile.known) < MaxPeers THEN {peer} ELSE {}
ReportPeer(profile, peer) ==
  [profile EXCEPT !.known = @ \cup LearnsReported(profile, peer),
                  !.candidate = NoPeer, !.candidateWindows = 0,
                  !.reports[peer] = Min({@ + 1, 2})]

ComparePeers(profile, peers) ==
  CASE Unknown(profile, peers) = {} -> ForgetsCandidate(profile)
    [] Confirms(profile, peers) -> ReportPeer(profile, FirstUnknown(profile, peers))
    [] OTHER ->
         LET first == FirstUnknown(profile, peers)
         IN [profile EXCEPT !.candidate = first,
                            !.candidateWindows = IF first = profile.candidate THEN @ + 1 ELSE 1]

(* observeInternalPeer; a window without internal traffic is not one.      *)
PeerTable(t) == Pruned(internalPeerProfiles, t, internalPeerWatermark)
PeerProfile(ip, t) == Entry(PeerTable(t), ip, FreshPeerProfile)
CountsPeers(ip, t) == Admits(PeerTable(t), ip) /\ t # PeerProfile(ip, t).lastBucket

ObserveInternalPeer(ip, peers, t) ==
  \/ /\ peers = {}
     /\ UNCHANGED peerVars
  \/ /\ peers # {}
     /\ internalPeerWatermark' = Later(t, internalPeerWatermark)
     /\ \/ /\ ~CountsPeers(ip, t)
           /\ internalPeerProfiles' = PeerTable(t)
        \/ /\ CountsPeers(ip, t)
           /\ LET seen == [PeerProfile(ip, t) EXCEPT
                             !.lastBucket = t, !.lastSeen = t,
                             !.windows = LastOf(Append(@, peers), PeerConfirm)]
              IN \E next \in IF Learning(seen) THEN LearnPeers(seen, peers)
                             ELSE {ComparePeers(seen, peers)} :
                   internalPeerProfiles' = With(PeerTable(t), ip, next)

(* The peer it reports, if any.                                            *)
ReportedPeers(ip, peers, t) ==
  IF peers # {} /\ CountsPeers(ip, t) /\ Confirms(PeerProfile(ip, t), peers)
  THEN {FirstUnknown(PeerProfile(ip, t), peers)} ELSE {}

-------------------------------------------------------------------------------
(* "adds the peer to the learned set after alerting to avoid repeated      *)
(* alerts": a peer is reported again only by a device whose set of known   *)
(* peers is full (observeInternalPeer).                                    *)
PeerReportedOnce ==
  \A ip \in DOMAIN internalPeerProfiles :
    LET p == internalPeerProfiles[ip]
    IN \A peer \in Peers : p.reports[peer] > 1 => Cardinality(p.known) = MaxPeers

(* "requires the same new internal peer to appear in 2 consecutive         *)
(* one-minute windows before alerting": a peer is reported only when it    *)
(* was met in every one of the last windows counted, whatever other peers  *)
(* came and went, and whatever was pruned, late or full.                   *)
PeerConfirmed ==
  [][\A ip \in DOMAIN internalPeerProfiles' : \A peer \in Peers :
       LET p == internalPeerProfiles'[ip]
           Before == Entry(internalPeerProfiles, ip, FreshPeerProfile).reports[peer]
       IN p.reports[peer] > Before =>
            /\ Len(p.windows) = PeerConfirm
            /\ \A i \in 1..PeerConfirm : peer \in p.windows[i]]_peerVars
===============================================================================

--------------------------- MODULE DockSetupProofs --------------------------
(***************************************************************************)
(* Proofs about setting the recorder up from the Dock (DockSetup): its     *)
(* settings and the captures of the screen.                                *)
(***************************************************************************)
EXTENDS DockSetup, SequenceTheorems, TLAPS

-----------------------------------------------------------------------------
(***************************************************************************)
(* Setting up.  What is sent to the detection is the screenshot at hand,   *)
(* whose file is deleted at once, and a screenshot whose file is deleted   *)
(* is not used again.                                                      *)
(***************************************************************************)

CaptureCall == [purpose : {"setup", "feed"}, previous : Nat]

\* A capture remembers a screenshot that was there.
CapturesOK ==
    /\ calls \in Seq(CaptureCall)
    /\ \A i \in DOMAIN calls : calls[i].previous <= shot
    /\ asked \in Nat

FramesDeleted ==
    /\ sent \in Seq(Nat)
    /\ \A i \in DOMAIN sent : sent[i] \in deleted

SetupInv ==
    /\ TypeOK
    /\ CapturesOK
    /\ FramesDeleted
    /\ FramesInOrder

\* The settings in use have a port that can be one.
LEMMA ClampedPort ==
    ASSUME NEW port \in Int
    PROVE  clamp_port(port) \in ValidPort
<1>1. MaxPort \in Nat
  BY DEF MaxPort
<1> QED
  BY <1>1, SetupAssumption DEF clamp_port, ValidPort

Config == [host : Host, port : ValidPort]

LEMMA LoadedConfig ==
    ASSUME NEW file \in Raw
    PROVE  Load(file) \in Config
BY ClampedPort, SetupAssumption DEF Raw, Load, Host, Config

LEMMA SavedConfig ==
    ASSUME config \in Config, NEW typed \in Raw
    PROVE  [typed EXCEPT !.port = IF @ \in ValidPort THEN @ ELSE config.port] \in Config
BY DEF Raw, Config

LEMMA SetupInit == Init => SetupInv
<1>1. ASSUME Init
      PROVE  TypeOK
  <2>1. config \in Config
    BY <1>1, LoadedConfig DEF Init
  <2>2. snap \in [running : BOOLEAN, secret : BOOLEAN, token : Token] /\ token \in Token
    BY <1>1 DEF Init, Unknown, Token
  <2>3. Len(calls) <= MaxNested /\ shot \in 0 .. asked /\ deleted \subseteq 1 .. shot
    BY <1>1, SetupAssumption DEF Init
  <2> QED
    BY <1>1, <2>1, <2>2, <2>3 DEF Init, TypeOK, Config
<1>2. ASSUME Init
      PROVE  CapturesOK /\ FramesDeleted /\ FramesInOrder
  BY <1>2 DEF Init, CapturesOK, FramesDeleted, FramesInOrder
<1> QED
  BY <1>1, <1>2 DEF SetupInv

\* Steps that take no part in the captures.
LEMMA SetupUncaptured ==
    ASSUME SetupInv, UNCHANGED captureVars, TypeOK'
    PROVE  SetupInv'
BY DEF SetupInv, captureVars, CapturesOK, FramesDeleted, FramesInOrder

LEMMA AskKeeps ==
    ASSUME SetupInv, NEW purpose \in {"setup", "feed"}, Ask(purpose)
    PROVE  SetupInv'
<1>1. /\ calls' = Append(calls, [purpose |-> purpose, previous |-> shot])
      /\ asked' = asked + 1 /\ Len(calls) < MaxNested
      /\ UNCHANGED <<shot, deleted, sent, dialog>>
      /\ UNCHANGED <<up, config, snap, secret, token, revoked, refreshing, browser, waiting>>
  BY DEF Ask, launchVars, setupVars
<1>2. CapturesOK'
  <2>1. shot \in Nat
    BY DEF SetupInv, TypeOK, CapturesOK
  <2>2. [purpose |-> purpose, previous |-> shot] \in CaptureCall
    BY <2>1 DEF CaptureCall
  <2>3. calls' \in Seq(CaptureCall) /\ asked' \in Nat
    BY <1>1, <2>2 DEF SetupInv, CapturesOK
  <2> QED
    BY <1>1, <2>1, <2>3 DEF SetupInv, CapturesOK
<1>3. TypeOK'
  BY <1>1, SetupAssumption DEF SetupInv, TypeOK, CapturesOK
<1> QED
  BY <1>1, <1>2, <1>3 DEF SetupInv, FramesDeleted, FramesInOrder

LEMMA ReturnKeeps ==
    ASSUME CapturesOK, Len(calls) <= MaxNested, calls # <<>>, Return,
           UNCHANGED <<asked, shot>>
    PROVE  CapturesOK' /\ Len(calls') <= MaxNested
<1>1. Len(calls) \in Nat \ {0}
  BY DEF CapturesOK
<1>2. \A i \in 1 .. (Len(calls) - 1) : i \in DOMAIN calls /\ calls[i] \in CaptureCall
  BY <1>1, ElementOfSeq DEF CapturesOK
<1>3. /\ calls' \in Seq(CaptureCall)
      /\ Len(calls') = Len(calls) - 1
      /\ \A i \in 1 .. (Len(calls) - 1) : calls'[i] = calls[i]
  <2> DEFINE n == Len(calls) - 1
  <2>1. n \in Int /\ 1 \in Int /\ \A i \in 1 .. n : calls[i] \in CaptureCall
    BY <1>1, <1>2
  <2>2. calls' = SubSeq(calls, 1, n)
    BY DEF Return
  <2> HIDE DEF n
  <2>3. /\ calls' \in Seq(CaptureCall)
        /\ Len(calls') = IF 1 <= n THEN n - 1 + 1 ELSE 0
        /\ \A i \in 1 .. n - 1 + 1 : calls'[i] = calls[1 + i - 1]
    BY <2>1, <2>2, SubSeqProperties
  <2>4. Len(calls') = n
    <3>1. n \in Nat
      BY <1>1 DEF n
    <3> QED
      BY <2>3, <3>1
  <2>5. ASSUME NEW i \in 1 .. n
        PROVE  calls'[i] = calls[i]
    <3>1. i \in 1 .. n - 1 + 1 /\ 1 + i - 1 = i
      BY <2>1
    <3> QED
      BY <2>3, <3>1
  <2> QED
    BY <2>3, <2>4, <2>5 DEF n
<1>4. DOMAIN calls' = 1 .. (Len(calls) - 1)
  BY <1>3, LenProperties
<1>5. \A i \in DOMAIN calls' : calls'[i].previous <= shot'
  BY <1>2, <1>3, <1>4 DEF CapturesOK
<1>6. Len(calls') <= MaxNested
  BY <1>1, <1>3, SetupAssumption
<1> QED
  BY <1>3, <1>5, <1>6 DEF CapturesOK

LEMMA CapturedKeeps ==
    ASSUME SetupInv, Captured
    PROVE  SetupInv'
<1>1. /\ calls # <<>> /\ shot # Innermost.previous
      /\ Return /\ UNCHANGED <<asked, shot, dialog>>
      /\ UNCHANGED <<up, config, snap, secret, token, revoked, refreshing, browser, waiting>>
      /\ \/ UNCHANGED <<deleted, sent>>
         \/ /\ shot \notin deleted
            /\ deleted' \in {deleted, deleted \cup {shot}} /\ sent' = sent
         \/ /\ shot \notin deleted
            /\ deleted' = deleted \cup {shot} /\ sent' = Append(sent, shot)
  BY DEF Captured, DeleteFile, launchVars, setupVars
<1>2. shot \in 1 .. asked
  <2>1. Len(calls) \in DOMAIN calls
    BY <1>1 DEF SetupInv, CapturesOK
  <2>2. shot \in 0 .. asked /\ asked \in Nat
    BY DEF SetupInv, TypeOK, CapturesOK
  <2>3. calls[Len(calls)] \in CaptureCall /\ calls[Len(calls)].previous <= shot
    BY <2>1, ElementOfSeq DEF SetupInv, CapturesOK
  <2>4. calls[Len(calls)].previous \in Nat
    BY <2>3 DEF CaptureCall
  <2> QED
    BY <1>1, <2>2, <2>3, <2>4 DEF Innermost
<1>3. CapturesOK' /\ Len(calls') <= MaxNested
  BY <1>1, ReturnKeeps DEF SetupInv, TypeOK
<1>4. TypeOK'
  <2>1. deleted' \subseteq 1 .. shot
    <3>1. deleted \subseteq 1 .. shot /\ shot \in 1 .. shot
      BY <1>2 DEF SetupInv, TypeOK, CapturesOK
    <3> QED
      BY <1>1, <3>1
  <2> QED
    BY <1>1, <1>3, <2>1 DEF SetupInv, TypeOK
<1>5. FramesDeleted'
  <2>1. shot \in Nat /\ asked \in Nat
    BY <1>2 DEF SetupInv, CapturesOK
  <2>2. CASE sent' = Append(sent, shot) /\ deleted' = deleted \cup {shot}
    BY <2>1, <2>2 DEF SetupInv, FramesDeleted
  <2>3. CASE sent' = sent /\ deleted \subseteq deleted'
    BY <2>3 DEF SetupInv, FramesDeleted
  <2> QED
    BY <1>1, <2>2, <2>3
<1>6. FramesInOrder'
  <2>1. \A i \in DOMAIN sent : sent[i] \in 1 .. shot
    BY DEF SetupInv, FramesDeleted, TypeOK
  <2>2. CASE sent' = Append(sent, shot) /\ shot \notin deleted
    BY <1>2, <2>1, <2>2 DEF SetupInv, FramesDeleted, FramesInOrder, CapturesOK
  <2> QED
    BY <1>1, <2>2 DEF SetupInv, FramesInOrder
<1> QED
  BY <1>3, <1>4, <1>5, <1>6 DEF SetupInv

LEMMA SetupNext ==
    ASSUME SetupInv, [Next]_vars
    PROVE  SetupInv'
<1> USE DEF launchVars, setupVars, captureVars
<1>1. CASE Heartbeat
  <2>1. snap' \in [running : BOOLEAN, secret : BOOLEAN, token : Token]
    <3>1. secret \in BOOLEAN /\ token \in Token
      BY DEF SetupInv, TypeOK
    <3>2. \/ snap' = [running |-> TRUE, secret |-> secret, token |-> token]
          \/ snap' = [running |-> TRUE, secret |-> FALSE, token |-> "missing"]
          \/ snap' = [running |-> FALSE, secret |-> FALSE, token |-> "missing"]
      <4>1. Reachable \in BOOLEAN
        BY DEF Reachable, SetupInv, TypeOK
      <4> QED
        BY <1>1, <4>1 DEF Heartbeat, Unknown
    <3> DEFINE S == [running : BOOLEAN, secret : BOOLEAN, token : Token]
    <3>3. [running |-> TRUE, secret |-> secret, token |-> token] \in S
      BY <3>1
    <3>4. /\ [running |-> TRUE, secret |-> FALSE, token |-> "missing"] \in S
          /\ [running |-> FALSE, secret |-> FALSE, token |-> "missing"] \in S
      BY DEF Token
    <3> HIDE DEF S
    <3>5. snap' \in S
      BY <3>2, <3>3, <3>4
    <3> QED
      BY <3>5 DEF S
  <2> QED
    BY <1>1, <2>1, SetupUncaptured DEF Heartbeat, SetupInv, TypeOK
<1>2. CASE SaveSettings
  <2>1. config' \in Config
    BY <1>2, SavedConfig DEF SaveSettings, SetupInv, TypeOK, Config
  <2>2. snap' \in [running : BOOLEAN, secret : BOOLEAN, token : Token]
    BY <1>2 DEF SaveSettings, Unknown, Token
  <2> QED
    BY <1>2, <2>1, <2>2, SetupUncaptured DEF SaveSettings, SetupInv, TypeOK, Config
<1>3. CASE Crash \/ \E copied \in BOOLEAN : Select(copied)
  BY <1>3, SetupUncaptured DEF Crash, Select, SetupInv, TypeOK
<1>4. CASE Authorize \/ SignIn \/ SignInFails \/ TokenChanges
  BY <1>4, SetupUncaptured
     DEF Authorize, SignIn, SignInFails, TokenChanges, Token,
         SetupInv, TypeOK
<1>5. CASE RefreshToken \/ TokenRefreshed \/ RefreshReturns
  BY <1>5, SetupUncaptured
     DEF RefreshToken, TokenRefreshed, RefreshReturns, Token,
         SetupInv, TypeOK
<1>6. CASE OpenDialog \/ CloseDialog
  BY <1>6 DEF OpenDialog, CloseDialog, SetupInv, TypeOK, CapturesOK, FramesDeleted,
              FramesInOrder
<1>7. CASE Capture \/ Feed
  BY <1>7, AskKeeps DEF Capture, Feed
<1>8. CASE ObsSaves
  <2>1. shot' \in 0 .. asked /\ shot \in Nat /\ shot' = shot + 1
    BY <1>8 DEF ObsSaves, SetupInv, TypeOK, CapturesOK
  <2>2. deleted \subseteq 1 .. shot'
    BY <2>1 DEF SetupInv, TypeOK
  <2>3. TypeOK'
    BY <1>8, <2>1, <2>2 DEF ObsSaves, SetupInv, TypeOK
  <2>4. CapturesOK'
    <3>1. \A i \in DOMAIN calls : calls[i].previous \in Nat
      <4>1. \A i \in DOMAIN calls : calls[i] \in CaptureCall
        BY DEF SetupInv, CapturesOK
      <4> QED
        BY <4>1 DEF CaptureCall
    <3> QED
      BY <1>8, <2>1, <3>1 DEF ObsSaves, SetupInv, CapturesOK
  <2> QED
    BY <1>8, <2>3, <2>4 DEF ObsSaves, SetupInv, FramesDeleted, FramesInOrder
<1>9. CASE CaptureTimesOut
  <2>1. CapturesOK' /\ Len(calls') <= MaxNested
    BY <1>9, ReturnKeeps DEF CaptureTimesOut, SetupInv, TypeOK
  <2> QED
    BY <1>9, <2>1 DEF CaptureTimesOut, SetupInv, TypeOK, FramesDeleted, FramesInOrder
<1>10. CASE UNCHANGED vars
  BY <1>10 DEF vars, SetupInv, TypeOK, CapturesOK, FramesDeleted, FramesInOrder
<1> QED
  BY <1>1, <1>2, <1>3, <1>4, <1>5, <1>6, <1>7, <1>8, <1>9, <1>10, CapturedKeeps DEF Next

\* The invariant holds throughout.
THEOREM SetupInvariant ==
    Spec => []SetupInv
<1>1. SetupInv /\ [Next]_vars => SetupInv'
  BY SetupNext
<1> QED
  BY <1>1, SetupInit, PTL DEF Spec

\* The settings in use have a port, whatever the settings file says, and the
\* captures are well-formed.
THEOREM SetupTypeCorrect ==
    Spec => []TypeOK
<1>1. SetupInv => TypeOK
  BY DEF SetupInv
<1> QED
  BY <1>1, SetupInvariant, PTL

\* However captures nest, every frame is sent once, in the order of the screens.
THEOREM FramesCorrect ==
    Spec => []FramesInOrder
<1>1. SetupInv => FramesInOrder
  BY DEF SetupInv
<1> QED
  BY <1>1, SetupInvariant, PTL

=============================================================================

--------------------------- MODULE DecisionProofs ---------------------------
(***************************************************************************)
(* Theorems about the machines and decisions of module Decisions, for any  *)
(* number of requests and callers and inputs of any size.                  *)
(***************************************************************************)
EXTENDS Decisions, FiniteSetTheorems, TLAPS

(***************************************************************************)
(* Share links.  A request that has been answered stays answered, and the  *)
(* column holds the token of the last POST to have written it.             *)
(***************************************************************************)
ShareTypeOK ==
  /\ present \in BOOLEAN
  /\ share \in ShareRequests \cup {""}
  /\ lkind \in [ShareRequests -> ShareKinds]
  /\ lpc \in [ShareRequests -> {"none", "idle", "load", "write"} \cup LinkAnswers]
  /\ lbefore \in [ShareRequests -> SUBSET ShareRequests]

(* A request began after the ones it lists had been answered.              *)
BeforeAnswered == \A r, s \in ShareRequests : s \in lbefore[r] => lpc[s] \in LinkAnswers

(* No request that replaces links and began after the token in the column  *)
(* was told has been answered.                                             *)
TokenCurrent ==
  \A r, s \in ShareRequests :
    share = r /\ s # r /\ r \in lbefore[s] /\ lpc[s] = "done" => lkind[s] = "patch"

(* A link that was told is in the column, or was replaced by a request it  *)
(* did not come after.                                                     *)
LinkKept(r) == share = r \/ \E s \in ShareRequests : Supersedes(s, r)

ShareInv ==
  /\ ShareTypeOK
  /\ BeforeAnswered
  /\ share # "" => present
  /\ TokenCurrent
  /\ \A r \in ShareRequests : LinkMinted(r) => LinkKept(r)

(* What a request leaves of the column: nobody else's token gets in, and   *)
(* what was there goes only for a request that replaces it.                *)
LEMMA RowWritten ==
  ASSUME ShareInv, NEW t \in ShareRequests, WriteRow(t)
  PROVE  /\ present' \in BOOLEAN /\ share' \in ShareRequests \cup {""}
         /\ share' # "" => present' /\ (share' = share \/ (share' = t /\ lkind[t] = "mint"))
         /\ share' = share /\ share # "" => lkind[t] = "patch" \/ share = t
         /\ share' # share => lkind[t] # "patch"
         /\ present /\ lkind[t] = "mint" => share' = t
BY ShareAssumption
   DEF ShareInv, ShareTypeOK, ShareKinds, WriteRow, ShareAfter, SetShareToken

(* A written row keeps the account of the links.                           *)
LEMMA WrittenLinks ==
  ASSUME ShareInv, NEW t \in ShareRequests, lpc[t] = "write", WriteRow(t),
         NEW to \in LinkAnswers, lpc' = [lpc EXCEPT ![t] = to],
         to = "done" /\ lkind[t] = "mint" => present,
         UNCHANGED <<lkind, lbefore>>
  PROVE  ShareInv'
<1>. USE DEF ShareInv, LinkAnswers
<1>0. /\ present' \in BOOLEAN /\ share' \in ShareRequests \cup {""}
      /\ share' # "" => present' /\ (share' = share \/ (share' = t /\ lkind[t] = "mint"))
      /\ share' = share /\ share # "" => lkind[t] = "patch" \/ share = t
      /\ share' # share => lkind[t] # "patch"
      /\ present /\ lkind[t] = "mint" => share' = t
  BY RowWritten
<1>1. ShareTypeOK'
  BY <1>0 DEF ShareTypeOK
<1>2. BeforeAnswered'
  BY DEF BeforeAnswered, ShareTypeOK
<1>3. \A s \in ShareRequests : t \notin lbefore[s]
  BY DEF BeforeAnswered
<1>4. TokenCurrent'
  <2>. SUFFICES ASSUME NEW r \in ShareRequests, NEW s \in ShareRequests, share' = r, s # r,
                       r \in lbefore[s], lpc'[s] = "done"
                PROVE  lkind[s] = "patch"
    BY DEF TokenCurrent
  <2>1. share' = share /\ share # "" /\ r # t
    BY <1>0, <1>3, ShareAssumption
  <2>2. s # t => lpc[s] = "done"
    BY DEF ShareTypeOK
  <2>. QED
    BY <1>0, <2>1, <2>2 DEF TokenCurrent
<1>5. ASSUME NEW r \in ShareRequests, LinkMinted(r)' PROVE LinkKept(r)'
  <2>1. CASE r = t
    BY <1>0, <1>5, <2>1 DEF LinkMinted, LinkKept, ShareTypeOK
  <2>2. CASE r # t
    <3>1. LinkMinted(r)
      BY <1>5, <2>2 DEF LinkMinted, ShareTypeOK
    <3>2. ASSUME NEW s \in ShareRequests, Supersedes(s, r) PROVE Supersedes(s, r)'
      BY <3>2 DEF Supersedes, ShareTypeOK
    <3>3. share = r /\ share' # share => Supersedes(t, r)'
      BY <1>0, <1>3, <2>2 DEF Supersedes, ShareTypeOK
    <3>. QED
      BY <3>1, <3>2, <3>3 DEF LinkKept
  <2>. QED
    BY <2>1, <2>2
<1>. QED
  BY <1>0, <1>1, <1>2, <1>4, <1>5

(* Every step of the requests keeps it.                                    *)
LEMMA ShareStep ==
  ASSUME ShareInv, ShareNext \/ UNCHANGED shareVars
  PROVE  ShareInv'
<1>. USE DEF ShareInv
<1>1. CASE UNCHANGED shareVars
  BY <1>1 DEF shareVars, ShareTypeOK, BeforeAnswered, TokenCurrent, LinkMinted, LinkKept, Supersedes
<1>2. ASSUME NEW t \in ShareRequests, BeginShare(t) PROVE ShareInv'
  <2>1. ShareTypeOK' /\ BeforeAnswered'
    BY <1>2 DEF BeginShare, ShareTypeOK, BeforeAnswered, LinkAnswers
  <2>2. TokenCurrent' /\ (share' # "" => present')
    BY <1>2 DEF BeginShare, ShareTypeOK, TokenCurrent
  <2>3. ASSUME NEW r \in ShareRequests, LinkMinted(r)' PROVE LinkKept(r)'
    BY <1>2, <2>3 DEF BeginShare, ShareTypeOK, LinkMinted, LinkKept, Supersedes
  <2>. QED
    BY <2>1, <2>2, <2>3
<1>3. ASSUME NEW t \in ShareRequests,
             LoadShared(t) \/ (WriteSharedRaises(t) /\ UNCHANGED <<present, share>>)
      PROVE  ShareInv'
  <2>0. /\ UNCHANGED <<present, share, lkind, lbefore>> /\ lpc[t] \in {"load", "write"}
        /\ \E to \in {"write", "gone", "failed"} : lpc' = [lpc EXCEPT ![t] = to]
    BY <1>3 DEF LoadShared, WriteSharedRaises
  <2>1. ShareTypeOK' /\ BeforeAnswered'
    BY <2>0 DEF ShareTypeOK, BeforeAnswered, LinkAnswers
  <2>2. TokenCurrent' /\ (share' # "" => present')
    BY <2>0 DEF ShareTypeOK, TokenCurrent
  <2>3. ASSUME NEW r \in ShareRequests, LinkMinted(r)' PROVE LinkKept(r)'
    BY <2>0, <2>3 DEF ShareTypeOK, LinkMinted, LinkKept, Supersedes
  <2>. QED
    BY <2>1, <2>2, <2>3
<1>4. ASSUME NEW t \in ShareRequests, WriteShared(t) PROVE ShareInv'
  <2>1. PICK to \in LinkAnswers : /\ lpc' = [lpc EXCEPT ![t] = to]
                                  /\ to = "done" /\ lkind[t] = "mint" => present
    BY <1>4 DEF WriteShared, LinkAnswers
  <2>. QED
    BY <1>4, <2>1, WrittenLinks DEF WriteShared
<1>5. ASSUME NEW t \in ShareRequests, WriteSharedRaises(t), WriteRow(t) PROVE ShareInv'
  BY <1>5, WrittenLinks DEF WriteSharedRaises, LinkAnswers
<1>. QED
  BY <1>1, <1>2, <1>3, <1>4, <1>5 DEF ShareNext, WriteSharedRaises

(* However requests to mint, revoke, patch and delete overlap and fail, a  *)
(* link is dead once a later one of the owner's is answered, and works     *)
(* until one that is later or overlaps (management.py 105-163).            *)
THEOREM LinksObeyTheOwner == Spec => []LinksFollowOwner
<1>1. Init => ShareInv
  <2>1. ShareInit \/ ShareIdle => ShareInv
    BY ShareAssumption
       DEF ShareInit, ShareIdle, ShareInv, ShareTypeOK, ShareKinds, BeforeAnswered, TokenCurrent,
           LinkMinted, LinkAnswers
  <2>. QED
    BY <2>1 DEF Init
<1>2. ShareInv /\ [Next]_vars => ShareInv'
  <2>1. [Next]_vars => ShareNext \/ UNCHANGED shareVars
    BY DEF Next, vars, machineVars, DecideAccess, DecideImage, DecideVideo, DecideType, DecideQr,
           Decide
  <2>. QED
    BY <2>1, ShareStep
<1>3. ShareInv => LinksFollowOwner
  BY ShareAssumption
     DEF ShareInv, LinksFollowOwner, GetByShareToken, TokenCurrent, LinkKept
<1>. QED
  BY <1>1, <1>2, <1>3, PTL DEF Spec

(***************************************************************************)
(* Clients.  The lock admits one caller at a time to open a client, and    *)
(* only while there is none.                                               *)
(***************************************************************************)
CallerSteps == {"idle", "waiting", "opening", "using", "done", "failed"}

ClientTypeOK ==
  /\ process \in Processes
  /\ open \in [Clients -> Nat]
  /\ refers \in [Clients -> BOOLEAN]
  /\ uses \in [Callers -> {"storage", "metadata", "redis"}]
  /\ cpc \in [Callers -> CallerSteps]
  /\ todo \in Seq(Clients)

(* A client that is open is the one held.                                  *)
OpenIsHeld == \A c \in Clients : open[c] = IF refers[c] THEN 1 ELSE 0

(* What callers know of the client they are after.                         *)
CallerInv(r) ==
  /\ cpc[r] = "using" => refers[uses[r]]
  /\ cpc[r] = "opening" => ~refers[uses[r]]
  /\ cpc[r] \in {"opening", "waiting"} => ~BuiltAtOnce(uses[r])
  /\ phase # "serving" => cpc[r] \in {"idle", "done", "failed"}

OneOpens ==
  \A r, s \in Callers :
    cpc[r] = "opening" /\ cpc[s] = "opening" /\ uses[r] = uses[s] => r = s

(* What the life of the process says of the clients that are held.         *)
PhaseInv ==
  /\ phase = "broker" => ~refers["broker"]
  /\ phase \in {"broker", "connect"} => ~refers["metadata"]
  /\ refers["broker"] => process.role = "api"

(* A client is still in the lifespan's part of the list, or its aclose     *)
(* raised: what a worker closes after the lifespan was tried before.       *)
Pending(c) == \E i \in 1..(Len(todo) - Len(WorkerCloses)) : todo[i] = c

ClosingInv ==
  /\ phase = "closing" => \A c \in Clients : refers[c] => c \in unclosed \/ Pending(c)
  /\ phase = "stopped" => \A c \in Clients : refers[c] => c \in unclosed

ClientInv ==
  /\ ClientTypeOK /\ OpenIsHeld /\ OneOpens /\ PhaseInv /\ ClosingInv
  /\ \A r \in Callers : CallerInv(r)

(* Opening a client that is not held.                                      *)
LEMMA Held1 ==
  ASSUME ClientInv, NEW c \in Clients, ~refers[c], Hold(c)
  PROVE  /\ open' \in [Clients -> Nat] /\ refers' \in [Clients -> BOOLEAN]
         /\ OpenIsHeld'
         /\ \A e \in Clients : refers'[e] <=> (refers[e] \/ e = c)
BY DEF ClientInv, ClientTypeOK, OpenIsHeld, Hold

(* The steps of the process up to its service, and the callers that wait   *)
(* for none of them.                                                       *)
LEMMA StartSteps ==
  ASSUME ClientInv, StartBroker \/ Connect
  PROVE  ClientInv'
<1>0. /\ UNCHANGED <<process, uses, cpc, todo, unclosed>>
      /\ phase \in {"broker", "connect"} /\ phase' \notin {"broker", "closing", "stopped"}
      /\ {"broker", "metadata"} \subseteq Clients
  BY DEF StartBroker, Connect, Clients
<1>1. /\ open' \in [Clients -> Nat] /\ refers' \in [Clients -> BOOLEAN] /\ OpenIsHeld' /\ PhaseInv'
  <2>1. CASE Hold("broker") /\ StartBroker /\ process.role = "api"
    <3>1. ~refers["broker"] /\ ~refers["metadata"]
      BY <2>1 DEF ClientInv, PhaseInv, StartBroker
    <3>. QED
      BY <1>0, <2>1, <3>1, Held1 DEF PhaseInv, StartBroker
  <2>2. CASE Hold("metadata") /\ Connect /\ phase' = "serving"
    <3>1. ~refers["metadata"]
      BY <2>2 DEF ClientInv, PhaseInv, Connect
    <3>. QED
      BY <1>0, <2>2, <3>1, Held1 DEF PhaseInv, Connect, ClientInv
  <2>3. CASE UNCHANGED <<open, refers>>
    BY <1>0, <2>3 DEF ClientInv, ClientTypeOK, OpenIsHeld, PhaseInv, StartBroker, Connect
  <2>. QED
    BY <2>1, <2>2, <2>3 DEF StartBroker, Connect
<1>2. ASSUME NEW r \in Callers PROVE cpc[r] \in {"idle", "done", "failed"}
  BY <1>0, <1>2 DEF ClientInv, CallerInv
<1>. QED
  BY <1>0, <1>1, <1>2 DEF ClientInv, ClientTypeOK, OneOpens, ClosingInv, CallerInv

(* The steps of the callers.                                               *)
LEMMA CallerStep ==
  ASSUME ClientInv, NEW t \in Callers, GetClient(t) \/ OpenClient(t) \/ EnterLock(t) \/ Release(t)
  PROVE  ClientInv'
<1>. USE DEF ClientInv, ClientTypeOK, CallerSteps
<1>. DEFINE c == uses[t]
<1>0. /\ UNCHANGED <<process, phase, uses, todo, unclosed>> /\ phase = "serving"
      /\ c \in Clients /\ c # "broker"
  BY DEF GetClient, OpenClient, EnterLock, Release, CallerInv, Clients
<1>1. \/ UNCHANGED <<open, refers>>
      \/ Hold(c) /\ ~refers[c] /\ cpc'[t] = "using"
  <2>1. CASE GetClient(t) /\ BuiltAtOnce(c) /\ ~refers[c]
    BY <2>1 DEF GetClient
  <2>2. CASE GetClient(t) /\ ~(BuiltAtOnce(c) /\ ~refers[c])
    BY <2>2 DEF GetClient
  <2>3. CASE OpenClient(t)
    BY <2>3 DEF OpenClient, CallerInv
  <2>4. CASE EnterLock(t) \/ Release(t)
    BY <2>4 DEF EnterLock, Release
  <2>. QED
    BY <2>1, <2>2, <2>3, <2>4
<1>2. /\ open' \in [Clients -> Nat] /\ refers' \in [Clients -> BOOLEAN] /\ OpenIsHeld'
      /\ \A e \in Clients : refers'[e] <=> (refers[e] \/ (e = c /\ refers'[c]))
  BY <1>0, <1>1, Held1 DEF OpenIsHeld
<1>3. \E to \in CallerSteps : cpc' = [cpc EXCEPT ![t] = to]
  BY DEF GetClient, OpenClient, EnterLock, Release, NextInLock
<1>4. PhaseInv' /\ ClosingInv'
  BY <1>0, <1>2 DEF PhaseInv, ClosingInv, Clients
<1>5. /\ cpc'[t] = "using" => refers'[c]
      /\ cpc'[t] = "opening" => /\ ~refers'[c] /\ ~BuiltAtOnce(c)
                                /\ \A s \in Callers : uses[s] = c => cpc[s] # "opening"
      /\ cpc'[t] = "waiting" => ~BuiltAtOnce(c)
  <2>1. CASE GetClient(t)
    <3>1. CASE refers[c] \/ BuiltAtOnce(c)
      <4>1. cpc'[t] = "using"
        BY <2>1, <3>1 DEF GetClient
      <4>2. refers'[c]
        BY <1>0, <2>1, <3>1 DEF GetClient, Hold
      <4>. QED
        BY <4>1, <4>2
    <3>2. CASE ~refers[c] /\ ~BuiltAtOnce(c)
      <4>1. refers' = refers /\ cpc'[t] \in {"opening", "waiting"}
        BY <2>1, <3>2 DEF GetClient
      <4>2. cpc'[t] = "opening" => At(c, "opening") \cup At(c, "waiting") = {}
        BY <2>1, <3>2 DEF GetClient
      <4>3. cpc'[t] = "opening" => \A s \in Callers : uses[s] = c => cpc[s] # "opening"
        BY <4>2 DEF At
      <4>. QED
        BY <3>2, <4>1, <4>3
    <3>. QED
      BY <3>1, <3>2
  <2>2. CASE OpenClient(t)
    BY <1>0, <2>2 DEF OpenClient, Hold
  <2>3. CASE EnterLock(t)
    BY <1>0, <2>3 DEF EnterLock, NextInLock, At, CallerInv
  <2>4. CASE Release(t)
    BY <1>0, <2>4 DEF Release
  <2>. QED
    BY <2>1, <2>2, <2>3, <2>4
<1>6. BuiltAtOnce(c)' = BuiltAtOnce(c)
  BY <1>0 DEF BuiltAtOnce
<1>7. OneOpens'
  BY <1>0, <1>3, <1>5 DEF OneOpens
<1>8. ASSUME NEW r \in Callers, r # t, cpc[r] = "opening", uses[r] = c PROVE ~refers'[c]
  <2>1. ~BuiltAtOnce(c) /\ ~refers[c]
    BY <1>8 DEF CallerInv
  <2>2. ~Hold(c) \/ cpc[t] # "opening"
    BY <1>8 DEF OneOpens
  <2>. QED
    BY <1>0, <1>1, <2>1, <2>2 DEF GetClient, OpenClient, EnterLock, Release
<1>9. ASSUME NEW r \in Callers PROVE CallerInv(r)'
  <2>1. CASE r = t
    BY <1>0, <1>5, <1>6, <2>1 DEF CallerInv
  <2>2. CASE r # t
    <3>1. cpc'[r] = cpc[r] /\ uses'[r] = uses[r] /\ BuiltAtOnce(uses[r])' = BuiltAtOnce(uses[r])
      BY <1>0, <1>3, <2>2 DEF BuiltAtOnce
    <3>2. uses[r] \in Clients
      BY DEF Clients
    <3>. QED
      BY <1>0, <1>2, <1>8, <2>2, <3>1, <3>2 DEF CallerInv
  <2>. QED
    BY <2>1, <2>2
<1>. QED
  BY <1>0, <1>2, <1>3, <1>4, <1>7, <1>9

(* Shutdown: the list holds every client that may be held, and one is      *)
(* struck off it closed, not there, or with its failure noted.             *)
LEMMA ShutdownSteps ==
  ASSUME ClientInv, BeginShutdown \/ CloseClient \/ Stop
  PROVE  ClientInv'
<1>. USE DEF ClientInv, ClientTypeOK
<1>0. process' = process /\ uses' = uses /\ cpc' = cpc /\ WorkerCloses' = WorkerCloses
  BY DEF BeginShutdown, CloseClient, Stop, WorkerCloses
<1>1. CASE BeginShutdown
  <2>1. todo' = LifespanCloses \o WorkerCloses /\ UNCHANGED <<open, refers, unclosed>>
        /\ phase' = "closing"
    BY <1>1 DEF BeginShutdown
  <2>2. LifespanCloses \in Seq(Clients) /\ WorkerCloses \in Seq(Clients)
    <3>1. <<"metadata", "storage", "redis", "broker">> \in Seq(Clients)
      BY DEF Clients
    <3>2. <<"metadata", "storage", "redis">> \in Seq(Clients)
      BY DEF Clients
    <3>3. <<"storage", "metadata">> \in Seq(Clients) /\ <<>> \in Seq(Clients)
      BY DEF Clients
    <3>. QED
      BY <3>1, <3>2, <3>3 DEF LifespanCloses, WorkerCloses
  <2>3. Len(todo') - Len(WorkerCloses) = Len(LifespanCloses)
    BY <2>1, <2>2
  <2>4. \A i \in 1..Len(LifespanCloses) : todo'[i] = LifespanCloses[i]
    BY <2>1, <2>2
  <2>5. ASSUME NEW c \in Clients, refers[c] PROVE \E i \in 1..Len(LifespanCloses) : LifespanCloses[i] = c
    <3>1. CASE process.role = "api"
      BY <2>5, <3>1 DEF LifespanCloses, Clients
    <3>2. CASE process.role # "api"
      <4>1. c \in {"metadata", "storage", "redis"}
        BY <2>5, <3>2 DEF PhaseInv, Clients
      <4>. QED
        BY <3>2, <4>1 DEF LifespanCloses
    <3>. QED
      BY <3>1, <3>2
  <2>6. ClosingInv'
    BY <1>0, <2>1, <2>3, <2>4, <2>5 DEF ClosingInv, Pending
  <2>. QED
    BY <1>0, <1>1, <2>1, <2>2, <2>6
       DEF BeginShutdown, OpenIsHeld, OneOpens, PhaseInv, CallerInv, BuiltAtOnce
<1>2. CASE CloseClient
  <2>. DEFINE c == Head(todo)
  <2>0. phase' = phase /\ phase = "closing" /\ todo # <<>> /\ c \in Clients /\ Tail(todo) \in Seq(Clients)
    BY <1>2 DEF CloseClient
  <2>1. /\ refers' \in [Clients -> BOOLEAN] /\ open' \in [Clients -> Nat] /\ todo' \in Seq(Clients)
        /\ OpenIsHeld'
        /\ \A e \in Clients : refers'[e] => refers[e]
    <3>1. CASE refers[c] /\ open' = [open EXCEPT ![c] = @ - 1] /\ refers' = [refers EXCEPT ![c] = FALSE]
               /\ todo' = Tail(todo)
      <4>1. open[c] = 1
        BY <2>0, <3>1 DEF OpenIsHeld
      <4>2. open' \in [Clients -> Nat] /\ refers' \in [Clients -> BOOLEAN]
        BY <2>0, <3>1, <4>1
      <4>3. \A e \in Clients : e # c => open'[e] = open[e] /\ refers'[e] = refers[e]
        BY <3>1
      <4>4. open'[c] = 0 /\ ~refers'[c]
        BY <2>0, <3>1, <4>1
      <4>. QED
        BY <2>0, <3>1, <4>2, <4>3, <4>4 DEF OpenIsHeld
    <3>2. CASE UNCHANGED <<open, refers>> /\ todo' \in {Tail(todo), <<>>}
      <4>1. <<>> \in Seq(Clients)
        OBVIOUS
      <4>2. todo' \in Seq(Clients)
        BY <2>0, <3>2, <4>1
      <4>. QED
        BY <3>2, <4>2 DEF OpenIsHeld
    <3>. QED
      BY <1>2, <3>1, <3>2 DEF CloseClient
  <2>2. refers'[c] => c \in unclosed'
    BY <1>2, <2>0 DEF CloseClient
  <2>3. unclosed \ {c} \subseteq unclosed'
    BY <1>2 DEF CloseClient
  <2>4. ASSUME NEW e \in Clients, refers'[e], e # c PROVE e \in unclosed' \/ Pending(e)'
    <3>1. e \in unclosed \/ Pending(e)
      BY <2>0, <2>1, <2>4 DEF ClosingInv
    <3>2. ASSUME NEW i \in 1..(Len(todo) - Len(WorkerCloses)), todo[i] = e PROVE Pending(e)'
      <4>1. Len(WorkerCloses) \in Nat
        BY DEF WorkerCloses
      <4>2. i # 1 /\ i \in 2..Len(todo) /\ Len(todo) > Len(WorkerCloses)
        BY <2>0, <2>4, <3>2, <4>1
      <4>3. todo' = Tail(todo)
        BY <1>2, <4>2 DEF CloseClient, Shielded
      <4>4. todo'[i - 1] = e /\ i - 1 \in 1..(Len(todo') - Len(WorkerCloses))
        BY <2>0, <3>2, <4>1, <4>2, <4>3
      <4>. QED
        BY <1>0, <4>4 DEF Pending
    <3>. QED
      BY <2>3, <2>4, <3>1, <3>2 DEF Pending
  <2>5. ClosingInv'
    BY <2>0, <2>2, <2>4 DEF ClosingInv
  <2>. QED
    BY <1>0, <2>0, <2>1, <2>5 DEF OneOpens, PhaseInv, CallerInv, BuiltAtOnce, Clients
<1>3. CASE Stop
  <2>1. ClosingInv'
    <3>1. Len(WorkerCloses) \in Nat /\ Len(todo) = 0
      BY <1>3 DEF Stop, WorkerCloses
    <3>2. \A c \in Clients : ~Pending(c)
      BY <3>1 DEF Pending
    <3>. QED
      BY <1>3, <3>2 DEF Stop, ClosingInv
  <2>. QED
    BY <1>0, <1>3, <2>1 DEF Stop, OpenIsHeld, OneOpens, PhaseInv, CallerInv, BuiltAtOnce
<1>. QED
  BY <1>1, <1>2, <1>3

(* However many callers race for the first use of a client and whatever    *)
(* raises, every client that is open is held, and after shutdown only one  *)
(* whose own aclose raised is (main.py 112-146, storage/__init__.py 80-87, *)
(* broker.py).                                                             *)
THEOREM ClientsDoNotLeak == Spec => []NoClientLeaks
<1>1. Init => ClientInv
  <2>1. ClientInit \/ ClientIdle => ClientInv
    <3>. SUFFICES ASSUME ClientInit \/ ClientIdle PROVE ClientInv
      OBVIOUS
    <3>1. /\ open = [c \in Clients |-> 0] /\ refers = [c \in Clients |-> FALSE]
          /\ cpc = [r \in Callers |-> "idle"] /\ todo = <<>> /\ phase # "closing"
          /\ process \in Processes
          /\ uses \in [Callers -> {"storage", "metadata", "redis"}]
      BY DEF ClientInit, ClientIdle, Processes
    <3>. QED
      BY <3>1 DEF ClientInv, ClientTypeOK, CallerSteps, OpenIsHeld, OneOpens, PhaseInv, ClosingInv,
                  CallerInv, Clients
  <2>. QED
    BY <2>1 DEF Init
<1>2. ClientInv /\ [Next]_vars => ClientInv'
  <2>1. [Next]_vars => ClientNext \/ UNCHANGED clientVars
    BY DEF Next, vars, machineVars, DecideAccess, DecideImage, DecideVideo, DecideType, DecideQr,
           Decide
  <2>2. ClientInv /\ UNCHANGED clientVars => ClientInv'
    BY DEF clientVars, ClientInv, ClientTypeOK, OpenIsHeld, OneOpens, PhaseInv, ClosingInv, Pending,
           WorkerCloses, CallerInv, BuiltAtOnce
  <2>. QED
    BY <2>1, <2>2, StartSteps, CallerStep, ShutdownSteps DEF ClientNext
<1>3. ClientInv => NoClientLeaks
  BY DEF ClientInv, NoClientLeaks, OpenIsHeld, ClosingInv, CallerInv
<1>. QED
  BY <1>1, <1>2, <1>3, PTL DEF Spec

(***************************************************************************)
(* Decisions.  What is answered is what the operators of the components    *)
(* say of a question that can be asked.                                    *)
(***************************************************************************)
AccessDecision(asked) ==
  LET principals == ResolvePrincipalOptional(asked.site, asked.by.header, asked.by.query) IN
  [principals |-> principals,
   manage  |-> VerifyToken(principals),
   upload  |-> [scope \in UploadScopes |-> RequireScopes(principals, scope)],
   presign |-> CreatePresignedUpload(asked.site, asked.by.header),
   stream  |-> [r \in Records |-> [way \in Asked |-> StreamVideo(asked.site, principals, r, way)]],
   share   |-> [way \in Asked |-> PlaySharedVideo(asked.site, way)]]

VideoDecision(job) ==
  [truncated |-> Truncated(job), container |-> Container(job),
   args |-> BuildFfmpegArgs(job), seek |-> PosterSeekSeconds(job)]

TypeDecision(asked) == ValidateFileFromPath(asked.file, asked.declared, asked.guess)

TypeQuestions == [file : BinaryFiles \cup TextFiles, declared : MediaTypes, guess : MediaTypes]

Decided(topic, S, decided) ==
  question.topic = topic => question.asked \in S /\ answer \in {<<>>, <<decided>>}

AnswerInv ==
  /\ Decided("access", [site : Sites, by : Credentials], AccessDecision(question.asked))
  /\ Decided("image", Images, ValidateAndStripImage(question.asked))
  /\ Decided("video", Encodings, VideoDecision(question.asked))
  /\ Decided("type", TypeQuestions, TypeDecision(question.asked))
  /\ Decided("qr", QrRequests, GenerateQrcode(question.asked))

(* Every answer is one of these.                                           *)
LEMMA AnswersDecided == Spec => []AnswerInv
<1>1. Init => AnswerInv
  <2>. SUFFICES ASSUME Init PROVE AnswerInv
    OBVIOUS
  <2>1. answer = <<>> /\ (Questions \/ \E m \in Machines : question = Ask(m, <<>>))
    BY DEF Init
  <2>2. /\ question.topic = "access" => question.asked \in [site : Sites, by : Credentials]
        /\ question.topic = "image" => question.asked \in Images
        /\ question.topic = "video" => question.asked \in Encodings
        /\ question.topic = "qr" => question.asked \in QrRequests
    BY <2>1 DEF Questions, Machines, Ask
  <2>3. question.topic = "type" => question.asked \in TypeQuestions
    BY <2>1 DEF Questions, Machines, Ask, TypeQuestions
  <2>. QED
    BY <2>1, <2>2, <2>3 DEF AnswerInv, Decided
<1>2. AnswerInv /\ [Next]_vars => AnswerInv'
  <2>. SUFFICES ASSUME AnswerInv, [Next]_vars PROVE AnswerInv'
    OBVIOUS
  <2>1. \/ UNCHANGED <<question, answer>>
        \/ Decide("access", AccessDecision(question.asked))
        \/ Decide("image", ValidateAndStripImage(question.asked))
        \/ Decide("video", VideoDecision(question.asked))
        \/ Decide("type", TypeDecision(question.asked))
        \/ Decide("qr", GenerateQrcode(question.asked))
    BY DEF Next, vars, machineVars, DecideAccess, DecideImage, DecideVideo, DecideType, DecideQr,
           AccessDecision, VideoDecision, TypeDecision
  <2>2. question' = question
    BY <2>1 DEF Decide
  <2>3. /\ AccessDecision(question.asked)' = AccessDecision(question.asked)
        /\ ValidateAndStripImage(question.asked)' = ValidateAndStripImage(question.asked)
        /\ VideoDecision(question.asked)' = VideoDecision(question.asked)
        /\ TypeDecision(question.asked)' = TypeDecision(question.asked)
        /\ GenerateQrcode(question.asked)' = GenerateQrcode(question.asked)
    BY <2>2
  <2>. QED
    BY <2>1, <2>2, <2>3 DEF AnswerInv, Decided, Decide
<1>. QED
  BY <1>1, <1>2, PTL DEF Spec

(***************************************************************************)
(* Access.                                                                 *)
(***************************************************************************)

(* A set whose members are all the same has one at most.                   *)
LEMMA AtMostOne ==
  ASSUME NEW S, \A x, y \in S : x = y
  PROVE  Cardinality(S) <= 1
<1>1. CASE S = {}
  BY <1>1, FS_EmptySet
<1>2. CASE S # {}
  <2>1. PICK x : S = {x}
    BY <1>2
  <2>. QED
    BY <2>1, FS_Singleton
<1>. QED
  BY <1>1, <1>2

(* A token stands for one principal or none; a principal names a record    *)
(* exactly when it holds a read grant, and the backend holds none.         *)
LEMMA Principals ==
  ASSUME NEW site, NEW t, NEW p \in ResolvePrincipal(site, t)
  PROVE  /\ ResolvePrincipal(site, t) = {p}
         /\ p.file # "" <=> "read:file" \in p.scopes
         /\ p.master => p.scopes = {}
         /\ p.master \in BOOLEAN
<1>1. CASE t.kind = "static"
  <2>1. PICK q : q = [owner |-> t.sub, master |-> TRUE, scopes |-> {}, file |-> ""]
    OBVIOUS
  <2>2. ResolvePrincipal(site, t) = {q}
    BY <1>1, <2>1 DEF ResolvePrincipal
  <2>3. q.master = TRUE /\ q.scopes = {} /\ q.file = ""
    BY <2>1
  <2>. QED
    BY <2>2, <2>3
<1>2. CASE t.kind # "static"
  <2>1. ResolvePrincipal(site, t) = DecodeCapabilityJwt(site, t)
    BY <1>2 DEF ResolvePrincipal
  <2>2. PICK q : q = [owner |-> t.sub, master |-> FALSE, scopes |-> t.scopes,
                      file |-> IF "read:file" \in t.scopes THEN t.file ELSE ""]
    OBVIOUS
  <2>3. DecodeCapabilityJwt(site, t) = {q} /\ ("read:file" \in t.scopes => t.file # "")
    BY <2>1, <2>2 DEF DecodeCapabilityJwt
  <2>4. q.master = FALSE /\ q.scopes = t.scopes
        /\ q.file = IF "read:file" \in t.scopes THEN t.file ELSE ""
    BY <2>2
  <2>. QED
    BY <2>1, <2>3, <2>4
<1>. QED
  BY <1>1, <1>2

(* One principal is let in or refused.                                     *)
LEMMA AdmitOne ==
  ASSUME NEW p, NEW A
  PROVE  Admit({p}, A) = IF p \in A THEN 200 ELSE 403
<1>1. {p} # {} /\ ({p} \cap A # {} <=> p \in A)
  OBVIOUS
<1>. QED
  BY <1>1 DEF Admit

(* A private record is served only to who may read it, and to all of these *)
(* when the site can sign.                                                 *)
LEMMA PrivateStream ==
  ASSUME NEW site \in Sites, NEW P, NEW r \in PrivateRecords, NEW way \in Asked
  PROVE  /\ Served(StreamVideo(site, P, r, way)) => MayReadRecord(P, r)
         /\ Served(StreamVideo(site, P, r, way)) /\ site.stream =>
              StreamVideo(site, P, r, way).via \in {"app", "nginx"}
         /\ way = "main" /\ MayReadRecord(P, r) /\ site.signs => Served(StreamVideo(site, P, r, way))
         /\ ~MayReadRecord(P, r) =>
              StreamVideo(site, P, r, way).status = IF way = "unknown" THEN 400 ELSE 404
         /\ way \in {"lacking", "unknown"} =>
              StreamVideo(site, P, r, way).status = IF way = "unknown" THEN 400 ELSE 404
         /\ way = "stored" => StreamVideo(site, P, r, way) = StreamVideo(site, P, r, "main")
<1>1. r.vis = "private" /\ way \in {"main", "stored", "lacking", "unknown"}
  BY DEF PrivateRecords, Asked
<1>2. CASE way \in {"lacking", "unknown"}
  <2>1. ResolveRenditionTarget(way) = IF way = "unknown" THEN 400 ELSE 404
    BY <1>2 DEF ResolveRenditionTarget
  <2>2. StreamVideo(site, P, r, way) = Reply(IF way = "unknown" THEN 400 ELSE 404, "none")
    BY <2>1 DEF StreamVideo
  <2>. QED
    BY <1>2, <2>2 DEF Reply, Served
<1>3. CASE way \in {"main", "stored"}
  <2>1. \A w \in {"main", "stored"} : ResolveRenditionTarget(w) = 200
    BY DEF ResolveRenditionTarget
  <2>2. \A w \in {"main", "stored"} :
          StreamVideo(site, P, r, w) =
            IF MayReadRecord(P, r) THEN ResolvePlayback(site, TRUE) ELSE Reply(404, "none")
    BY <1>1, <2>1 DEF StreamVideo
  <2>3. /\ site.signs => Served(ResolvePlayback(site, TRUE))
        /\ Served(ResolvePlayback(site, TRUE)) /\ site.stream =>
             ResolvePlayback(site, TRUE).via \in {"app", "nginx"}
    BY DEF ResolvePlayback, Reply, Served
  <2>4. Reply(404, "none").status = 404 /\ ~Served(Reply(404, "none"))
    BY DEF Reply, Served
  <2>5. CASE MayReadRecord(P, r)
    <3>1. \A w \in {"main", "stored"} : StreamVideo(site, P, r, w) = ResolvePlayback(site, TRUE)
      BY <2>2, <2>5
    <3>. QED
      BY <1>3, <2>3, <2>5, <3>1
  <2>6. CASE ~MayReadRecord(P, r)
    <3>1. \A w \in {"main", "stored"} : StreamVideo(site, P, r, w) = Reply(404, "none")
      BY <2>2, <2>6
    <3>. QED
      BY <1>3, <2>4, <2>6, <3>1
  <2>. QED
    BY <2>5, <2>6
<1>. QED
  BY <1>1, <1>2, <1>3

(* The rung below the last: a token minted for an upload.                  *)
LEMMA MintedPrincipal ==
  ASSUME NEW site \in Sites, site.jwt, NEW owner \in Owners, NEW scope \in UploadScopes
  PROVE  LET minted == ResolvePrincipal(site, Minted(owner, scope)) IN
         /\ {s \in UploadScopes : RequireScopes(minted, s) = 200} = {scope}
         /\ VerifyToken(minted) = 403
         /\ \A r \in PrivateRecords : ~MayReadRecord(minted, r)
<1>. DEFINE p == [owner |-> owner, master |-> FALSE, scopes |-> {scope}, file |-> ""]
            minted == ResolvePrincipal(site, Minted(owner, scope))
<1>1. minted = {p}
  BY DEF ResolvePrincipal, DecodeCapabilityJwt, Minted, UploadScopes, PrincipalScopes
<1>2. p.master = FALSE /\ p.scopes = {scope} /\ p.file = "" /\ "manage:files" \notin p.scopes
  BY DEF UploadScopes
<1>. HIDE DEF p, minted
<1>3. \A s \in UploadScopes : RequireScopes(minted, s) = IF s = scope THEN 200 ELSE 403
  <2>. TAKE s \in UploadScopes
  <2>1. RequireScopes(minted, s) = IF p \in {q \in {p} : HasScope(q, s)} THEN 200 ELSE 403
    BY <1>1, AdmitOne DEF RequireScopes
  <2>. QED
    BY <1>2, <2>1 DEF HasScope
<1>4. VerifyToken(minted) = 403 /\ \A r \in PrivateRecords : ~MayReadRecord(minted, r)
  <2>1. VerifyToken(minted) = IF p \in {q \in {p} : GrantsOwnerAccess(q)} THEN 200 ELSE 403
    BY <1>1, AdmitOne DEF VerifyToken
  <2>2. ~GrantsOwnerAccess(p)
    BY <1>2 DEF GrantsOwnerAccess
  <2>. QED
    BY <1>1, <1>2, <2>1, <2>2 DEF MayReadRecord
<1>5. {s \in UploadScopes : RequireScopes(minted, s) = 200} = {scope}
  BY <1>3
<1>. QED
  BY <1>4, <1>5 DEF minted

(* For any set of tenants and records: nothing is managed and one private  *)
(* record read at most without the master secret or manage:files, no       *)
(* tenant reads another's, refusals look like missing records, streamed    *)
(* media gives no URL away, and a minted token does nothing but its upload *)
(* (auth.py 16-29, playback.py, utils.py 245-250).                         *)
THEOREM LadderHolds == Spec => []AccessLadder
<1>1. AnswerInv => AccessLadder
  <2>. SUFFICES ASSUME AnswerInv, Answered("access") PROVE AccessLadder
    BY DEF AccessLadder
  <2>1. PICK asked : asked = question.asked
    OBVIOUS
  <2>2. asked.site \in Sites /\ answer[1] = AccessDecision(asked)
    BY <2>1 DEF AnswerInv, Decided, Answered
  <2>3. PICK site \in Sites : site = asked.site
    BY <2>2
  <2>4. PICK t : t = TokenFromRequest(asked.by.header, asked.by.query)
    OBVIOUS
  <2>5. PICK P : P = ResolvePrincipal(site, t)
    OBVIOUS
  <2>6. PICK decided : decided = AccessDecision(asked)
    OBVIOUS
  <2>7. /\ decided.principals = P
        /\ decided.manage = VerifyToken(P)
        /\ decided.presign = CreatePresignedUpload(site, asked.by.header)
        /\ decided.stream = [r \in Records |-> [way \in Asked |-> StreamVideo(site, P, r, way)]]
        /\ decided.share = [way \in Asked |-> PlaySharedVideo(site, way)]
    BY <2>3, <2>4, <2>5, <2>6 DEF AccessDecision, ResolvePrincipalOptional
  <2>8. \A r \in Records, way \in Asked : decided.stream[r][way] = StreamVideo(site, P, r, way)
    BY <2>7
  <2>9. {"main", "unknown"} \subseteq Asked /\ PrivateRecords \subseteq Records
    BY DEF Asked, PrivateRecords
  <2>10. \A r \in ReadableBy(decided) : r \in PrivateRecords /\ MayReadRecord(P, r)
    BY <2>8, <2>9, PrivateStream DEF ReadableBy
  <2>11. BrowserTokensAreNarrow(decided)
    <3>. SUFFICES ASSUME NEW p \in P
                  PROVE  /\ ~GrantsAll(p) => decided.manage = 403
                         /\ \/ GrantsAll(p) /\ "read:file" \notin p.scopes
                            \/ Cardinality(ReadableBy(decided)) <= 1
      BY <2>7 DEF BrowserTokensAreNarrow
    <3>1. P = {p} /\ (p.file # "" <=> "read:file" \in p.scopes)
      BY <2>5, Principals
    <3>2. ~GrantsAll(p) => decided.manage = 403
      <4>1. VerifyToken({p}) = IF p \in {q \in {p} : GrantsOwnerAccess(q)} THEN 200 ELSE 403
        BY AdmitOne DEF VerifyToken
      <4>2. decided.manage = VerifyToken({p})
        BY <2>7, <3>1
      <4>. QED
        BY <4>1, <4>2 DEF GrantsAll, GrantsOwnerAccess
    <3>3. ASSUME ~(GrantsAll(p) /\ "read:file" \notin p.scopes)
          PROVE  Cardinality(ReadableBy(decided)) <= 1
      <4>1. ASSUME NEW r \in ReadableBy(decided)
            PROVE  r.id = p.file /\ r.owner = p.owner /\ r.vis = "private" /\ r \in Records
        BY <2>9, <2>10, <3>1, <3>3 DEF MayReadRecord, GrantsAll, GrantsOwnerAccess, PrivateRecords
      <4>2. \A r, s \in ReadableBy(decided) : r = s
        BY <4>1 DEF Records
      <4>. QED
        BY <4>2, AtMostOne
    <3>. QED
      BY <3>2, <3>3
  <2>12. TenantsAreApart(decided)
    BY <2>7, <2>10 DEF TenantsAreApart, MayReadRecord
  <2>13. RefusalsLookMissing(decided)
    <3>. SUFFICES ASSUME NEW r \in PrivateRecords, NEW way \in Asked, r \notin ReadableBy(decided),
                         site.signs
                  PROVE  decided.stream[r][way].status = IF way = "unknown" THEN 400 ELSE 404
      BY <2>1, <2>3 DEF RefusalsLookMissing
    <3>1. ~MayReadRecord(P, r)
      BY <2>8, <2>9, PrivateStream DEF ReadableBy
    <3>. QED
      BY <2>8, <2>9, <3>1, PrivateStream
  <2>14. PrivateUrlsAreKept(decided)
    <3>. SUFFICES ASSUME site.stream
                  PROVE  /\ \A r \in ReadableBy(decided) : decided.stream[r]["main"].via \in {"app", "nginx"}
                         /\ \A way \in Asked : decided.share[way].via \notin {"signed_url", "public_url"}
      BY <2>1, <2>3 DEF PrivateUrlsAreKept
    <3>1. ASSUME NEW r \in ReadableBy(decided) PROVE decided.stream[r]["main"].via \in {"app", "nginx"}
      BY <2>8, <2>9, <3>1, PrivateStream DEF ReadableBy
    <3>2. ASSUME NEW way \in Asked PROVE decided.share[way].via \notin {"signed_url", "public_url"}
      BY <2>7, <3>2 DEF PlaySharedVideo, ResolvePlayback, Reply
    <3>. QED
      BY <3>1, <3>2
  <2>15. MintedTokensOnlyUpload(decided)
    <3>. SUFFICES ASSUME decided.presign = 200 PROVE MintedTokensOnlyUpload(decided)
      BY DEF MintedTokensOnlyUpload
    <3>1. site.jwt
      BY <2>7 DEF CreatePresignedUpload, Sites
    <3>. QED
      BY <2>1, <2>3, <3>1, MintedPrincipal DEF MintedTokensOnlyUpload
  <2>. QED
    BY <2>2, <2>6, <2>11, <2>12, <2>13, <2>14, <2>15 DEF AccessLadder
<1>. QED
  BY <1>1, AnswersDecided, PTL

(***************************************************************************)
(* Numbers.                                                                *)
(***************************************************************************)

(* The larger and the smaller of two numbers.                              *)
LEMMA MaxOfTwo ==
  ASSUME NEW a \in Int, NEW b \in Int
  PROVE  Max({a, b}) = IF a >= b THEN a ELSE b
<1>. DEFINE m == IF a >= b THEN a ELSE b
<1>1. m \in {a, b} /\ \A y \in {a, b} : m >= y
  OBVIOUS
<1>2. \A x \in {a, b} : (\A y \in {a, b} : x >= y) => x = m
  OBVIOUS
<1>. HIDE DEF m
<1>3. (CHOOSE x \in {a, b} : \A y \in {a, b} : x >= y) = m
  BY <1>1, <1>2
<1>. QED
  BY <1>3 DEF Max, m

LEMMA MinOfTwo ==
  ASSUME NEW a \in Int, NEW b \in Int
  PROVE  Min({a, b}) = IF a <= b THEN a ELSE b
<1>. DEFINE m == IF a <= b THEN a ELSE b
<1>1. m \in {a, b} /\ \A y \in {a, b} : m <= y
  OBVIOUS
<1>2. \A x \in {a, b} : (\A y \in {a, b} : x <= y) => x = m
  OBVIOUS
<1>. HIDE DEF m
<1>3. (CHOOSE x \in {a, b} : \A y \in {a, b} : x <= y) = m
  BY <1>1, <1>2
<1>. QED
  BY <1>3 DEF Min, m

(* The only number of a set.                                               *)
LEMMA MaxOfOne ==
  ASSUME NEW a \in Int
  PROVE  Max({a}) = a /\ Min({a}) = a
<1>1. {a, a} = {a}
  OBVIOUS
<1>. QED
  BY <1>1, MaxOfTwo, MinOfTwo

(***************************************************************************)
(* QR codes.                                                               *)
(***************************************************************************)

(* The backing of a logo: an odd number of modules, three at least, and    *)
(* one more at most than its share of the side.                            *)
LEMMA BackingFits ==
  ASSUME NEW v \in Nat, v >= 3
  PROVE  LET n == SymbolSize(v)
             m == TargetModules(n) IN
         /\ n \in Nat /\ m \in Nat /\ m >= 3 /\ n >= 37
         /\ 100 * m <= 22 * n + 100
         /\ 2 * ((n - m) \div 2) = n - m
<1>. DEFINE n == SymbolSize(v)
            k == (22 * n) \div 100
            m == TargetModules(n)
<1>1. n \in Nat /\ n = 25 + 4 * v
  BY DEF SymbolSize, QrBorder
<1>2. k \in Nat /\ 100 * k <= 22 * n /\ k >= 8
  BY <1>1
<1>. HIDE DEF n
<1>3. m = IF k % 2 = 0 THEN k + 1 ELSE k
  BY <1>2, MaxOfTwo DEF TargetModules
<1>. HIDE DEF m, k
<1>4. m \in Nat /\ m >= 3 /\ m % 2 = 1 /\ 100 * m <= 22 * n + 100
  BY <1>1, <1>2, <1>3
<1>5. (n - m) \in Nat /\ (n - m) % 2 = 0
  BY <1>1, <1>4
<1>6. 2 * ((n - m) \div 2) = n - m
  BY <1>5
<1>. QED
  BY <1>1, <1>4, <1>6 DEF n, m

(* Ten squares of a side that is short enough fit.                         *)
LEMMA TenSquares ==
  ASSUME NEW a \in Nat, NEW b \in Nat, 1000 * b >= 3163 * a
  PROVE  10 * a * a <= b * b
<1>1. (1000 * b) * (1000 * b) >= (3163 * a) * (3163 * a)
  OBVIOUS
<1>2. 1000000 * (b * b) >= 10000000 * (a * a)
  BY <1>1
<1>. QED
  BY <1>2

(* At every version and scale a logo keeps to its share of the side, sits  *)
(* in the exact centre, covers a tenth of the code at most and nothing of  *)
(* the corners (qr_generator.py 18-43, 174-207).                           *)
THEOREM LogoKeepsItsPlace == Spec => []LogoLeavesCodeReadable
<1>1. AnswerInv => LogoLeavesCodeReadable
  <2>. SUFFICES ASSUME AnswerInv, Answered("qr") PROVE LogoLeavesCodeReadable
    BY DEF LogoLeavesCodeReadable
  <2>1. PICK req \in QrRequests : req = question.asked
    BY DEF AnswerInv, Decided, Answered
  <2>2. PICK drawing : drawing = GenerateQrcode(req)
    OBVIOUS
  <2>3. answer[1] = drawing
    BY <2>1, <2>2 DEF AnswerInv, Decided, Answered
  <2>4. req.version \in Nat /\ req.scale \in Nat /\ req.scale > 0
    <3>1. req.version \in 0..40 /\ req.scale \in QrScales
      BY DEF QrRequests
    <3>2. \A x \in QrScales : x \in Nat /\ x > 0
      BY QrAssumption
    <3>. QED
      BY <3>1, <3>2
  <2>5. drawing.overlay = {} \/ drawing = WithLogo(req)
    <3>1. \A status : Refused(status).overlay = {}
      BY DEF Refused
    <3>. QED
      BY <2>2, <3>1 DEF GenerateQrcode
  <2>6. CASE drawing.overlay = {}
    BY <2>3, <2>6 DEF LogoLeavesCodeReadable
  <2>7. CASE drawing = WithLogo(req)
    <3>1. PICK s \in Nat : s = req.scale /\ s > 0
      BY <2>4
    <3>2. PICK v \in Nat : v = VersionForLogo(req.version) /\ v >= 3
      BY <2>4 DEF VersionForLogo
    <3>3. PICK n \in Nat, m \in Nat : n = SymbolSize(v) /\ m = TargetModules(n)
      BY <3>2, BackingFits
    <3>4. m >= 3 /\ n >= 37 /\ 100 * m <= 22 * n + 100 /\ 2 * ((n - m) \div 2) = n - m
      BY <3>2, <3>3, BackingFits
    <3>5. PICK h \in Nat : h = (n - m) \div 2 /\ 2 * h = n - m
      BY <3>4
    <3>6. PICK logo : logo = Max({1, m * s - 2 * s})
      OBVIOUS
    <3>7. /\ drawing.symbol = n
          /\ drawing.overlay = {[place |-> [modules |-> m, start |-> h, backing |-> m * s, at |-> h * s],
                                 logo  |-> logo]}
      BY <2>7, <3>1, <3>2, <3>3, <3>5, <3>6 DEF WithLogo, LogoBackingGeometry
    <3>8. logo = (m - 2) * s
      <4>1. m * s - 2 * s = (m - 2) * s /\ (m - 2) * s \in Int /\ (m - 2) * s >= 1
        BY <3>1, <3>4
      <4>. QED
        BY <3>6, <4>1, MaxOfTwo
    <3>9. 100 * logo <= 22 * n * s
      <4>1. 100 * (m - 2) <= 22 * n
        BY <3>4
      <4>2. (100 * (m - 2)) * s <= (22 * n) * s
        BY <3>1, <4>1
      <4>. QED
        BY <3>8, <4>2
    <3>10. 2 * (h * s) + m * s = n * s
      <4>1. (2 * h + m) * s = n * s
        BY <3>5
      <4>. QED
        BY <4>1
    <3>11. h >= QrBorder + FinderModules
      BY <3>4, <3>5 DEF QrBorder, FinderModules
    <3>12. 10 * m * m <= (n - 2 * QrBorder) * (n - 2 * QrBorder)
      <4>1. n - 8 \in Nat /\ 1000 * (n - 8) >= 3163 * m
        BY <3>4
      <4>. QED
        BY <4>1, TenSquares DEF QrBorder
    <3>. QED
      BY <2>1, <2>3, <3>1, <3>7, <3>9, <3>10, <3>11, <3>12 DEF LogoLeavesCodeReadable
  <2>. QED
    BY <2>5, <2>6, <2>7
<1>. QED
  BY <1>1, AnswersDecided, PTL

(***************************************************************************)
(* Trims.                                                                  *)
(***************************************************************************)

(* An option that is absent leaves the default.                            *)
LEMMA OptionValue ==
  ASSUME NEW x \in Int, NEW default
  PROVE  OrElse({}, default) = default /\ OrElse({x}, default) = x
<1>1. {x} # {}
  OBVIOUS
<1>. QED
  BY <1>1, MaxOfOne DEF OrElse

(* What the code takes for the length of the output is what ffmpeg would   *)
(* write if no limit were set.                                             *)
LEMMA EffectiveIsRead ==
  ASSUME NEW job \in Encodings, job.probing = "reported"
  PROVE  \E read \in Int :
           /\ EffectiveOutputDuration(job) = {read}
           /\ \A args : args.ss = job.from /\ args.to = job.to =>
                /\ args.t = {} => FfmpegOutput(args, job.length) = read
                /\ \A m \in Int : args.t = {m} =>
                     FfmpegOutput(args, job.length) = IF read <= m THEN read ELSE m
<1>1. PICK d \in Nat : d = job.length
  BY TrimAssumption DEF Encodings
<1>2. PICK a \in Nat : OrElse(job.from, 0) = a
  <2>1. job.from \in Option(Times)
    BY DEF Encodings
  <2>2. job.from = {} \/ \E x \in Times : job.from = {x}
    BY <2>1 DEF Option
  <2>3. CASE job.from = {}
    BY <2>3 DEF OrElse
  <2>4. ASSUME NEW x \in Nat, job.from = {x} PROVE \E a \in Nat : OrElse(job.from, 0) = a
    BY <2>4, OptionValue
  <2>. QED
    BY <2>2, <2>3, <2>4, TrimAssumption
<1>3. PICK read \in Int :
        /\ EffectiveOutputDuration(job) = {read}
        /\ read = Max({0, Min({d} \cup job.to) - a})
  <2>0. ProbeVideoMetadata(job) = {d}
    BY <1>1 DEF ProbeVideoMetadata
  <2>1. job.to = {} \/ \E x \in Times : job.to = {x}
    <3>1. job.to \in Option(Times)
      BY DEF Encodings
    <3>. QED
      BY <3>1 DEF Option
  <2>. DEFINE available == Max({0, d - OrElse(job.from, 0)})
              asked     == Max({0, OrElse(job.to, 0) - OrElse(job.from, 0)})
  <2>4. EffectiveOutputDuration(job) = {IF job.to = {} THEN available ELSE Min({asked, available})}
    BY <2>0 DEF EffectiveOutputDuration
  <2>. HIDE DEF available, asked
  <2>2. CASE job.to = {}
    <3>1. EffectiveOutputDuration(job) = {Max({0, d - a})}
      BY <1>2, <2>4, <2>2 DEF available
    <3>2. {d} \cup job.to = {d}
      BY <2>2
    <3>3. Min({d} \cup job.to) = d
      BY <3>2, MaxOfOne
    <3>4. Max({0, d - a}) = IF 0 >= d - a THEN 0 ELSE d - a
      BY MaxOfTwo
    <3>. QED
      BY <3>1, <3>3, <3>4
  <2>3. ASSUME NEW b \in Nat, job.to = {b}
        PROVE  \E read \in Int :
                 /\ EffectiveOutputDuration(job) = {read}
                 /\ read = Max({0, Min({d} \cup job.to) - a})
    <3>1. job.to # {} /\ OrElse(job.to, 0) = b
      BY <2>3, OptionValue
    <3>2. EffectiveOutputDuration(job) = {Min({Max({0, b - a}), Max({0, d - a})})}
      BY <1>2, <2>4, <3>1 DEF available, asked
    <3>3. {d} \cup job.to = {d, b}
      BY <2>3
    <3>4. Min({d} \cup job.to) = IF d <= b THEN d ELSE b
      BY <3>3, MinOfTwo
    <3>5. /\ Max({0, b - a}) = IF 0 >= b - a THEN 0 ELSE b - a
          /\ Max({0, d - a}) = IF 0 >= d - a THEN 0 ELSE d - a
      BY MaxOfTwo
    <3>6. Max({0, Min({d} \cup job.to) - a}) =
            IF 0 >= Min({d} \cup job.to) - a THEN 0 ELSE Min({d} \cup job.to) - a
      BY <3>4, MaxOfTwo
    <3>7. Min({Max({0, b - a}), Max({0, d - a})}) =
            IF Max({0, b - a}) <= Max({0, d - a}) THEN Max({0, b - a}) ELSE Max({0, d - a})
      BY <3>5, MinOfTwo
    <3>. QED
      BY <3>2, <3>4, <3>5, <3>6, <3>7
  <2>. QED
    BY <2>1, <2>2, <2>3, TrimAssumption
<1>4. ASSUME NEW args, args.ss = job.from, args.to = job.to
      PROVE  FfmpegOutput(args, job.length) = Min({read} \cup args.t)
  BY <1>1, <1>2, <1>3, <1>4 DEF FfmpegOutput
<1>5. Min({read} \cup {}) = read /\ \A m \in Int : Min({read} \cup {m}) = IF read <= m THEN read ELSE m
  <2>1. {read} \cup {} = {read} /\ \A m \in Int : {read} \cup {m} = {read, m}
    OBVIOUS
  <2>. QED
    BY <2>1, MaxOfOne, MinOfTwo
<1>6. ASSUME NEW args, args.ss = job.from, args.to = job.to
      PROVE  /\ args.t = {} => FfmpegOutput(args, job.length) = read
             /\ \A m \in Int : args.t = {m} =>
                  FfmpegOutput(args, job.length) = IF read <= m THEN read ELSE m
  BY <1>4, <1>5, <1>6
<1>. QED
  BY <1>3, <1>6

(* For any input, trim and limit a record says truncated exactly when      *)
(* ffmpeg's output was cut by the limit, the container fits the codecs and *)
(* the poster frame lies inside the clip (tasks.py 138-292, 486-491, 602). *)
THEOREM RecordsDescribeTheEncode == Spec => []RecordDescribesEncode
<1>1. AnswerInv => RecordDescribesEncode
  <2>. SUFFICES ASSUME AnswerInv, Answered("video") PROVE RecordDescribesEncode
    BY DEF RecordDescribesEncode
  <2>1. PICK job \in Encodings : job = question.asked
    BY DEF AnswerInv, Decided, Answered
  <2>2. PICK decided : decided = VideoDecision(job)
    OBVIOUS
  <2>3. answer[1] = decided
    BY <2>1, <2>2 DEF AnswerInv, Decided, Answered
  <2>4. PICK args : args = BuildFfmpegArgs(job)
    OBVIOUS
  <2>5. /\ decided.truncated <=> Truncated(job)
        /\ decided.container = Container(job)
        /\ decided.args = args
        /\ decided.seek = PosterSeekSeconds(job)
    BY <2>2, <2>4 DEF VideoDecision
  <2>6. PICK free : free = [args EXCEPT !.t = {}]
    OBVIOUS
  <2>7. /\ args.ss = job.from /\ args.to = job.to
        /\ args.t = IF MaxDuration > 0 THEN {MaxDuration} ELSE {}
        /\ free.ss = job.from /\ free.to = job.to /\ free.t = {}
    BY <2>4, <2>6 DEF BuildFfmpegArgs
  <2>8. Truncated(job) <=>
          job.probing = "reported" /\ FfmpegOutput(args, job.length) < FfmpegOutput(free, job.length)
    <3>1. CASE job.probing = "reported"
      <4>1. PICK read \in Int :
              /\ EffectiveOutputDuration(job) = {read}
              /\ \A a : a.ss = job.from /\ a.to = job.to =>
                   /\ a.t = {} => FfmpegOutput(a, job.length) = read
                   /\ \A m \in Int : a.t = {m} =>
                        FfmpegOutput(a, job.length) = IF read <= m THEN read ELSE m
        BY <3>1, EffectiveIsRead
      <4>2. Truncated(job) <=> MaxDuration > 0 /\ read > MaxDuration
        BY <4>1 DEF Truncated
      <4>3. FfmpegOutput(free, job.length) = read
        BY <2>7, <4>1
      <4>4. CASE MaxDuration > 0
        <5>1. FfmpegOutput(args, job.length) = IF read <= MaxDuration THEN read ELSE MaxDuration
          BY <2>7, <4>1, <4>4, TrimAssumption
        <5>. QED
          BY <3>1, <4>2, <4>3, <4>4, <5>1, TrimAssumption
      <4>5. CASE ~(MaxDuration > 0)
        <5>1. FfmpegOutput(args, job.length) = read
          BY <2>7, <4>1, <4>5
        <5>. QED
          BY <4>2, <4>3, <4>5, <5>1
      <4>. QED
        BY <4>4, <4>5
    <3>2. CASE job.probing # "reported"
      <4>1. EffectiveOutputDuration(job) = {}
        BY <3>2 DEF EffectiveOutputDuration, ProbeVideoMetadata
      <4>. QED
        BY <3>2, <4>1 DEF Truncated
    <3>. QED
      BY <3>1, <3>2
  <2>9. decided.container = "webm" <=> args.codecs[2] = "libopus"
    <3>1. job.format \in Formats
      BY DEF Encodings
    <3>2. args.codecs = CASE job.format = "webm_vp9" -> <<"libvpx-vp9", "libopus">>
                          [] job.format = "webm_av1" -> <<"libsvtav1", "libopus">>
                          [] OTHER                   -> <<"libx264", "aac">>
      BY <2>4 DEF BuildFfmpegArgs
    <3>. QED
      BY <2>5, <3>1, <3>2 DEF Container, Formats
  <2>10. 0 <= decided.seek /\ (decided.seek = 0 \/ decided.seek < 10 * job.length)
    <3>1. PICK d \in Nat : d = job.length
      BY TrimAssumption DEF Encodings
    <3>2. PICK e \in Nat : e = OrElse(ProbeVideoMetadata(job), 0) /\ e \in {0, d}
      <4>1. ProbeVideoMetadata(job) \in {{}, {d}}
        BY <3>1 DEF ProbeVideoMetadata
      <4>. QED
        BY <3>1, <4>1, OptionValue, MaxOfOne DEF OrElse
    <3>3. PICK c \in Int : c = Max({10 * e - 100, 0}) /\ c >= 0
      BY MaxOfTwo
    <3>4. Min({e, c}) = IF e <= c THEN e ELSE c
      BY MinOfTwo
    <3>5. decided.seek = IF e <= 0 THEN 0 ELSE Min({e, c})
      BY <2>5, <3>2, <3>3 DEF PosterSeekSeconds
    <3>. QED
      BY <3>1, <3>2, <3>3, <3>4, <3>5
  <2>. QED
    BY <2>1, <2>3, <2>5, <2>6, <2>8, <2>9, <2>10 DEF RecordDescribesEncode
<1>. QED
  BY <1>1, AnswersDecided, PTL

(***************************************************************************)
(* Content types.                                                          *)
(***************************************************************************)

(* A position lies in the chunk its quotient numbers.                      *)
LEMMA Quotient ==
  ASSUME NEW a \in Nat, NEW c \in Nat, c > 0
  PROVE  /\ a \div c \in Nat
         /\ (a \div c) * c <= a
         /\ a < (a \div c) * c + c
OBVIOUS

(* Quotients are ordered as what is divided.                               *)
LEMMA QuotientOrder ==
  ASSUME NEW i \in Nat, NEW j \in Nat, NEW c \in Nat, c > 0, i * c < j * c + c
  PROVE  i <= j
<1>. SUFFICES ASSUME i >= j + 1 PROVE FALSE
  OBVIOUS
<1>1. i * c >= (j + 1) * c
  OBVIOUS
<1>. QED
  BY <1>1

(* Whatever lies in the text and is no longer than the overlap lies whole  *)
(* in a window of the scan.                                                *)
LEMMA WindowsCover ==
  ASSUME NEW length \in Nat, NEW at \in Nat, NEW width \in 1..OverlapSize, at + width <= length
  PROVE  \E w \in ScanWindows(length) : w[1] <= at /\ at + width <= w[2]
<1>1. ChunkSize \in Nat /\ OverlapSize \in Nat /\ ChunkSize > 0 /\ OverlapSize < ChunkSize
  BY ScanAssumption
<1>2. PICK e \in Nat : e = at + width - 1
  BY <1>1
<1>3. PICK i \in Nat : i = e \div ChunkSize /\ i * ChunkSize <= e /\ e < i * ChunkSize + ChunkSize
  BY <1>1, Quotient
<1>4. PICK n \in Nat : n = length + ChunkSize - 1
  BY <1>1
<1>5. PICK q \in Nat : q = n \div ChunkSize /\ n < q * ChunkSize + ChunkSize
  BY <1>1, Quotient
<1>6. i \in 0..(q - 1)
  <2>1. (i + 1) * ChunkSize = i * ChunkSize + ChunkSize /\ i + 1 \in Nat
    BY <1>1
  <2>2. (i + 1) * ChunkSize < q * ChunkSize + ChunkSize
    BY <1>1, <1>2, <1>3, <1>4, <1>5, <2>1
  <2>3. i + 1 <= q
    BY <1>1, <2>1, <2>2, QuotientOrder
  <2>. QED
    BY <2>3
<1>. DEFINE first == IF i = 0 THEN 0 ELSE i * ChunkSize - OverlapSize
            end   == Min({(i + 1) * ChunkSize, length})
<1>7. <<first, end>> \in ScanWindows(length)
  BY <1>4, <1>5, <1>6 DEF ScanWindows
<1>8. first <= at
  BY <1>1, <1>2, <1>3
<1>9. at + width <= end
  <2>1. (i + 1) * ChunkSize = i * ChunkSize + ChunkSize /\ (i + 1) * ChunkSize \in Int
    BY <1>1
  <2>2. end = IF (i + 1) * ChunkSize <= length THEN (i + 1) * ChunkSize ELSE length
    BY <2>1, MinOfTwo
  <2>. QED
    BY <1>1, <1>2, <1>3, <2>1, <2>2
<1>. HIDE DEF first, end
<1>. QED
  BY <1>7, <1>8, <1>9

(* No text with a tag in it passes the scan.                               *)
LEMMA ScanFindsTags ==
  ASSUME NEW h \in BinaryFiles \cup TextFiles, ~ScanFileForDangerousText(h)
  PROVE  h.tags = {}
<1>1. CASE h \in BinaryFiles
  BY <1>1 DEF BinaryFiles, Content
<1>2. CASE h \in TextFiles
  <2>1. PICK n \in Lengths : h.length = n /\ (h.tags = {} \/ \E t \in Tags(n) : h.tags = {t})
    BY <1>2 DEF TextFiles, Content
  <2>2. ASSUME NEW t \in Tags(n), h.tags = {t} PROVE FALSE
    <3>1. t.at \in 0..n /\ t.width \in 1..OverlapSize /\ t.at + t.width <= n /\ n \in Nat
      BY ScanAssumption DEF Tags
    <3>2. PICK at \in Nat, width \in 1..OverlapSize : at = t.at /\ width = t.width
      BY <3>1
    <3>3. \E w \in ScanWindows(n) : w[1] <= at /\ at + width <= w[2]
      BY <3>1, <3>2, WindowsCover
    <3>. QED
      BY <2>1, <2>2, <3>2, <3>3 DEF ScanFileForDangerousText
  <2>. QED
    BY <2>1, <2>2
<1>. QED
  BY <1>1, <1>2

(* What a validator accepts the sniff names, or something the code does    *)
(* not tell from it.                                                       *)
LEMMA ValidatorsAgree ==
  ASSUME NEW h, NEW type \in MagicTypes, MagicValidators(type, h)
  PROVE  type = SniffMagicType(h) \/ {type, SniffMagicType(h)} \in Confusable
<1>1. CASE type = "audio/mpeg"
  BY <1>1 DEF MagicValidators, SniffMagicType
<1>2. CASE type = "audio/aac"
  BY <1>2 DEF MagicValidators, SniffMagicType, Confusable
<1>3. CASE type = "video/mp4"
  <2>1. h.sig \in {"M4A", "isom"}
    BY <1>3 DEF MagicValidators, IsMp4, Boxed
  <2>2. ~IsMp3(h) /\ ~IsAac(h) /\ h.sig \in DOMAIN MimeOfSignature
    BY <2>1 DEF IsMp3, IsAac, MimeOfSignature, Boxed
  <2>3. MimeOfSignature["M4A"] = "audio/mp4" /\ MimeOfSignature["isom"] = "video/mp4"
    BY DEF MimeOfSignature, Boxed
  <2>. QED
    BY <1>3, <2>1, <2>2, <2>3 DEF SniffMagicType, Confusable
<1>4. CASE type = "video/ogg"
  <2>1. h.sig = "ogg"
    BY <1>4 DEF MagicValidators
  <2>2. ~IsMp3(h) /\ ~IsAac(h) /\ h.sig \in DOMAIN MimeOfSignature
    BY <2>1 DEF IsMp3, IsAac, MimeOfSignature, PlainSignatures
  <2>3. MimeOfSignature["ogg"] = "audio/ogg"
    BY DEF MimeOfSignature, PlainSignatures
  <2>. QED
    BY <1>4, <2>1, <2>2, <2>3 DEF SniffMagicType, Confusable
<1>5. CASE type \in {"video/x-matroska", "audio/webm"}
  <2>1. h.sig = "ebml"
    BY <1>5 DEF MagicValidators
  <2>2. ~IsMp3(h) /\ ~IsAac(h) /\ h.sig \in DOMAIN MimeOfSignature
    BY <2>1 DEF IsMp3, IsAac, MimeOfSignature, PlainSignatures
  <2>3. MimeOfSignature["ebml"] = "video/webm"
    BY DEF MimeOfSignature, PlainSignatures
  <2>. QED
    BY <1>5, <2>1, <2>2, <2>3 DEF SniffMagicType, Confusable
<1>6. CASE type \notin {"audio/mpeg", "audio/aac", "video/mp4", "video/ogg", "video/x-matroska",
                        "audio/webm"}
  <2>1. h.sig \in DOMAIN MimeOfSignature /\ MimeOfSignature[h.sig] = type
    BY <1>6 DEF MagicValidators
  <2>2. ~IsMp3(h) /\ ~IsAac(h)
    BY <2>1 DEF IsMp3, IsAac, MimeOfSignature, PlainSignatures, Boxed
  <2>. QED
    BY <2>1, <2>2 DEF SniffMagicType
<1>. QED
  BY <1>1, <1>2, <1>3, <1>4, <1>5, <1>6

(* What the sniff names is an allowed type.                                *)
LEMMA SniffedAllowed ==
  ASSUME NEW h, SniffMagicType(h) # ""
  PROVE  SniffMagicType(h) \in AllowedContentTypes
<1>1. CASE IsMp3(h) \/ IsAac(h)
  BY <1>1 DEF SniffMagicType, AllowedContentTypes, MagicTypes
<1>2. CASE ~IsMp3(h) /\ ~IsAac(h)
  <2>1. h.sig \in DOMAIN MimeOfSignature /\ SniffMagicType(h) = MimeOfSignature[h.sig]
    BY <1>2 DEF SniffMagicType
  <2>. QED
    BY <2>1 DEF AllowedContentTypes, MagicTypes
<1>. QED
  BY <1>1, <1>2

(* For files of any length and any chunk size a type with known signatures *)
(* is stored only for bytes of that type, and text only if no tag is       *)
(* anywhere in it (file_validation.py 278-441).                            *)
THEOREM StoredTypesFit == Spec => []StoredTypeFits
<1>1. AnswerInv => StoredTypeFits
  <2>. SUFFICES ASSUME AnswerInv, Answered("type"), answer[1] # "" PROVE StoredTypeFits
    BY DEF StoredTypeFits
  <2>1. PICK asked \in TypeQuestions : asked = question.asked
    BY DEF AnswerInv, Decided, Answered
  <2>2. PICK h \in BinaryFiles \cup TextFiles : h = asked.file
    BY DEF TypeQuestions
  <2>3. PICK type : type = ValidateFileFromPath(h, asked.declared, asked.guess)
    OBVIOUS
  <2>4. answer[1] = type
    <3>1. answer = <<TypeDecision(question.asked)>>
      BY DEF AnswerInv, Decided, Answered
    <3>2. TypeDecision(question.asked) = type
      BY <2>1, <2>2, <2>3 DEF TypeDecision
    <3>. QED
      BY <3>1, <3>2
  <2>5. /\ type = ValidateFileContent(h, asked.declared, asked.guess)
        /\ type \in TextTypes => ~ScanFileForDangerousText(h)
    BY <2>3, <2>4 DEF ValidateFileFromPath
  <2>6. \/ type = "application/octet-stream"
        \/ type = SniffMagicType(h)
        \/ type \in AllowedContentTypes /\ VerifyMagicBytesForType(h, type)
    <3>1. PICK guessed : guessed = GuessContentType(asked.guess, h)
      OBVIOUS
    <3>2. guessed # "" => guessed \in AllowedContentTypes /\ VerifyMagicBytesForType(h, guessed)
      BY <3>1 DEF GuessContentType
    <3>3. PICK declared : declared = NormalizeMediaType(asked.declared)
      OBVIOUS
    <3>4. CASE declared \in {"", "application/octet-stream"}
      <4>1. type = FirstOf(SniffMagicType(h), guessed, "application/octet-stream")
        BY <2>4, <2>5, <3>1, <3>3, <3>4 DEF ValidateFileContent
      <4>. QED
        BY <3>2, <4>1 DEF FirstOf
    <3>5. CASE declared \notin {"", "application/octet-stream"}
      BY <2>4, <2>5, <3>3, <3>5 DEF ValidateFileContent
    <3>. QED
      BY <3>4, <3>5
  <2>7. type \in AllowedContentTypes
    BY <2>4, <2>6, SniffedAllowed DEF AllowedContentTypes
  <2>8. type \in MagicTypes => type = SniffMagicType(h) \/ {type, SniffMagicType(h)} \in Confusable
    <3>1. "application/octet-stream" \notin MagicTypes
      BY DEF MagicTypes, MimeOfSignature, PlainSignatures, Boxed
    <3>. QED
      BY <2>6, <3>1, ValidatorsAgree DEF VerifyMagicBytesForType
  <2>9. type \in TextTypes => h.tags = {}
    BY <2>5, ScanFindsTags
  <2>. QED
    BY <2>1, <2>2, <2>4, <2>7, <2>8, <2>9 DEF StoredTypeFits
<1>. QED
  BY <1>1, AnswersDecided, PTL

(***************************************************************************)
(* Images.                                                                 *)
(***************************************************************************)

(* A side no longer than the longest is scaled into the limit.             *)
LEMMA ScaledWithin ==
  ASSUME NEW side \in Nat, NEW longest \in Nat, NEW dim \in Nat,
         side <= longest, longest > 0, dim > 0
  PROVE  Scaled(side, longest, dim) \in Nat /\ Scaled(side, longest, dim) <= dim
<1>1. PICK c \in Nat : c = 2 * longest /\ c > 0
  OBVIOUS
<1>2. PICK a \in Nat : a = 2 * side * dim + longest
  OBVIOUS
<1>3. side * dim <= longest * dim
  OBVIOUS
<1>4. a < dim * c + c
  <2>1. dim * c = 2 * (longest * dim) /\ a = 2 * (side * dim) + longest
    BY <1>1, <1>2
  <2>2. side * dim \in Nat /\ longest * dim \in Nat
    OBVIOUS
  <2>. QED
    BY <1>1, <1>3, <2>1, <2>2
<1>5. PICK q \in Nat : q = a \div c /\ q * c <= a
  BY <1>1, Quotient
<1>6. q <= dim
  <2>1. q * c < dim * c + c
    BY <1>1, <1>2, <1>4, <1>5
  <2>. QED
    BY <1>1, <2>1, QuotientOrder
<1>7. Scaled(side, longest, dim) = Max({1, q})
  BY <1>1, <1>2, <1>5 DEF Scaled
<1>8. Max({1, q}) = IF 1 >= q THEN 1 ELSE q
  BY MaxOfTwo
<1>. QED
  BY <1>6, <1>7, <1>8

(* An image that fits is left as it is, and any other is made to fit.      *)
LEMMA FitFits ==
  ASSUME NEW w \in Nat, NEW h \in Nat, NEW dim \in Nat, w > 0, h > 0, dim > 0
  PROVE  /\ FitWithin(w, h, dim) \in Nat \X Nat
         /\ FitWithin(w, h, dim)[1] <= dim /\ FitWithin(w, h, dim)[2] <= dim
         /\ ~(w > dim \/ h > dim) => FitWithin(w, h, dim) = <<w, h>>
<1>1. PICK longest \in Nat : longest = Max({w, h}) /\ w <= longest /\ h <= longest
  <2>1. Max({w, h}) = IF w >= h THEN w ELSE h
    BY MaxOfTwo
  <2>. QED
    BY <2>1
<1>2. CASE w > dim \/ h > dim
  <2>1. FitWithin(w, h, dim) = <<Scaled(w, longest, dim), Scaled(h, longest, dim)>>
    BY <1>1, <1>2 DEF FitWithin
  <2>2. longest > 0
    BY <1>1
  <2>3. /\ Scaled(w, longest, dim) \in Nat /\ Scaled(w, longest, dim) <= dim
        /\ Scaled(h, longest, dim) \in Nat /\ Scaled(h, longest, dim) <= dim
    BY <1>1, <2>2, ScaledWithin
  <2>. QED
    BY <1>2, <2>1, <2>3
<1>3. CASE ~(w > dim \/ h > dim)
  <2>1. FitWithin(w, h, dim) = <<w, h>>
    BY <1>3 DEF FitWithin
  <2>. QED
    BY <1>3, <2>1
<1>. QED
  BY <1>2, <1>3

(* Every alias names one rendition.                                        *)
LEMMA AliasesApart ==
  ASSUME NEW n \in RenditionNames, NEW text \in RenditionAliases[n], NEW plain
  PROVE  NormalizeRenditionName([text |-> text, plain |-> plain]) = {n}
<1>1. /\ RenditionAliases["thumbnail"] = {"thumbnail", "thumb", "t300"}
      /\ RenditionAliases["w400"] = {"w400", "400"}
      /\ RenditionAliases["w800"] = {"w800", "800"}
      /\ RenditionAliases["w1600"] = {"w1600", "1600"}
  BY DEF RenditionAliases, RenditionNames
<1>2. \A m \in RenditionNames : text \in RenditionAliases[m] <=> m = n
  BY <1>1 DEF RenditionNames
<1>3. NormalizeRenditionName([text |-> text, plain |-> plain]) =
        {m \in RenditionNames : text \in RenditionAliases[m]}
  BY DEF NormalizeRenditionName
<1>. QED
  BY <1>2, <1>3

(* The widths of the renditions; only the thumbnail is cropped.            *)
LEMMA Specs ==
  ASSUME NEW n \in RenditionNames
  PROVE  /\ RenditionSpec[n].width \in Nat
         /\ RenditionSpec[n].crop <=> n = "thumbnail"
<1>1. /\ RenditionSpec["thumbnail"] = [width |-> 300, crop |-> TRUE]
      /\ RenditionSpec["w400"] = [width |-> 400, crop |-> FALSE]
      /\ RenditionSpec["w800"] = [width |-> 800, crop |-> FALSE]
      /\ RenditionSpec["w1600"] = [width |-> 1600, crop |-> FALSE]
  BY DEF RenditionSpec, RenditionNames
<1>. QED
  BY <1>1 DEF RenditionNames

(* For images of any size and any number of frames the renditions stored   *)
(* are the ones no wider than the source, each found under all its names,  *)
(* and what is stored keeps to the profile and the limit on lossless       *)
(* output (image_vips.py 133-240, 393-495, renditions.py).                 *)
THEOREM RenditionsFitTheImage == Spec => []RenditionsFit
<1>1. AnswerInv => RenditionsFit
  <2>. SUFFICES ASSUME AnswerInv, Answered("image"), answer[1].ok PROVE RenditionsFit
    BY DEF RenditionsFit
  <2>1. PICK img \in Images : img = question.asked
    BY DEF AnswerInv, Decided, Answered
  <2>2. PICK done : done = ValidateAndStripImage(img)
    OBVIOUS
  <2>3. answer[1] = done
    BY <2>1, <2>2 DEF AnswerInv, Decided, Answered
  <2>4. PICK w \in Nat, h \in Nat, pages \in Nat :
          /\ w = img.width /\ h = img.height /\ pages = img.pages
          /\ w > 0 /\ h > 0 /\ pages > 0
    <3>1. img.width \in Sides /\ img.height \in Sides /\ img.pages \in Pages
      BY DEF Images
    <3>2. \A x \in Sides \cup Pages : x \in Nat /\ x > 0
      BY ImageAssumption
    <3>. QED
      BY <3>1, <3>2
  <2>5. PICK dim \in Nat : dim = MaxDim(img.optimization) /\ dim > 0
    <3>1. img.optimization \in Optimizations
      BY DEF Images
    <3>. QED
      BY <3>1 DEF MaxDim, Optimizations
  <2>6. PICK x \in Nat, y \in Nat :
          /\ FitWithin(w, h, dim) = <<x, y>>
          /\ x <= dim /\ y <= dim
          /\ ~(w > dim \/ h > dim) => x = w /\ y = h
    <3>1. w > 0 /\ h > 0 /\ dim > 0
      BY <2>4, <2>5
    <3>2. PICK size : size = FitWithin(w, h, dim)
      OBVIOUS
    <3>3. /\ size \in Nat \X Nat
          /\ size[1] <= dim /\ size[2] <= dim
          /\ ~(w > dim \/ h > dim) => size = <<w, h>>
      BY <3>1, <3>2, FitFits
    <3>. QED
      BY <3>2, <3>3
  <2>7. done.ok /\ Rejected.ok = FALSE
    BY <2>3 DEF Rejected
  <2>8. done = Encode(img)
    BY <2>2, <2>7 DEF ValidateAndStripImage, ProcessAnimated
  <2>9. /\ LosslessFits(img, <<x, y>>)
        /\ done.width = x /\ done.height = y
        /\ done.renditions = IF img.thumbnail /\ img.materialize
                               THEN GenerateMaterializedRenditions(w) ELSE {}
    <3>1. Encode(img) =
            IF ~LosslessFits(img, <<x, y>>) THEN Rejected
            ELSE [ok |-> TRUE, width |-> x, height |-> y,
                  renditions |-> IF img.thumbnail /\ img.materialize
                                   THEN GenerateMaterializedRenditions(w) ELSE {}]
      BY <2>4, <2>5, <2>6 DEF Encode
    <3>2. LosslessFits(img, <<x, y>>)
      BY <2>7, <2>8, <3>1
    <3>. QED
      BY <2>8, <3>1, <3>2
  <2>10. GenerateMaterializedRenditions(w) =
           {n \in RenditionNames : n = "thumbnail" \/ RenditionSpec[n].width <= w}
    BY <2>4, Specs DEF GenerateMaterializedRenditions
  <2>11. ASSUME NEW n \in RenditionNames, NEW plain \in BOOLEAN, NEW text \in RenditionAliases[n]
         PROVE  FoundRenditions(done, [text |-> text, plain |-> plain]) = {n} \cap done.renditions
    BY AliasesApart DEF FoundRenditions
  <2>12. ListedRenditions(done) \subseteq done.renditions
    BY DEF ListedRenditions, FilterRenditions
  <2>13. ASSUME NEW n \in done.renditions \ ListedRenditions(done)
         PROVE  done.width < RenditionSpec[n].width /\ Max({w, h}) > dim
    <3>1. n \in RenditionNames /\ (n = "thumbnail" \/ RenditionSpec[n].width <= w)
      BY <2>9, <2>10
    <3>2. ~RenditionSpec[n].crop /\ RenditionSpec[n].width > x
      BY <2>9 DEF ListedRenditions, FilterRenditions
    <3>3. RenditionSpec[n].width <= w /\ RenditionSpec[n].width \in Nat
      BY <3>1, <3>2, Specs
    <3>4. w > dim \/ h > dim
      BY <2>6, <3>2, <3>3
    <3>5. Max({w, h}) = IF w >= h THEN w ELSE h
      BY MaxOfTwo
    <3>. QED
      BY <2>9, <3>2, <3>4, <3>5
  <2>14. Max({done.width, done.height}) <= dim
    <3>1. Max({x, y}) = IF x >= y THEN x ELSE y
      BY MaxOfTwo
    <3>. QED
      BY <2>6, <2>9, <3>1
  <2>15. img.optimization = "lossless" =>
           img.actual * done.width * done.height <= LosslessMaxOutputBytes
    <3>. SUFFICES ASSUME img.optimization = "lossless"
                  PROVE  img.actual * x * y <= LosslessMaxOutputBytes
      BY <2>9
    <3>1. PICK a \in 0..1 : a = img.actual
      BY DEF Images
    <3>2. PICK m \in Nat : m = LosslessMaxOutputBytes
      BY DEF LosslessMaxOutputBytes
    <3>3. m \div pages <= m /\ m \div pages \in Nat
      <4>1. (m \div pages) * pages <= m /\ m \div pages \in Nat
        BY <2>4, Quotient
      <4>2. m \div pages <= (m \div pages) * pages
        BY <2>4, <4>1
      <4>. QED
        BY <4>1, <4>2
    <3>4. a * (x * y) <= m \div pages
      BY <2>4, <2>9, <3>1, <3>2 DEF LosslessFits
    <3>5. a * x * y = a * (x * y)
      BY <3>1
    <3>. QED
      BY <3>1, <3>2, <3>3, <3>4, <3>5
  <2>. QED
    BY <2>1, <2>3, <2>4, <2>5, <2>9, <2>10, <2>11, <2>12, <2>13, <2>14, <2>15 DEF RenditionsFit
<1>. QED
  BY <1>1, AnswersDecided, PTL

(***************************************************************************)
(* Streamed bodies.  While a body is read the temp file holds exactly the  *)
(* chunks that were read, and these are within the cap.                    *)
(***************************************************************************)
StreamInv ==
  /\ spc # "idle" => sent \in Bodies
  /\ chunks \in Nat
  /\ spc \in {"idle", "start", "no_temp"} => disk = {}
  /\ spc = "start" => chunks = 0
  /\ spc = "streaming" => disk = {Buffered(sent, chunks)}
  /\ TempWithinCap

(* What is buffered is all that was read, up to the size of the body.      *)
LEMMA BufferedSize ==
  ASSUME NEW body \in Bodies, NEW k \in Nat
  PROVE  /\ body.size \in Nat
         /\ Buffered(body, k) \in Nat /\ Buffered(body, k) <= body.size
         /\ Buffered(body, 0) = 0
         /\ k = Reads(body) => Buffered(body, k) = body.size
<1>1. PICK size \in Nat : size = body.size
  BY BulkAssumption DEF Bodies
<1>2. PICK r \in Nat : r = ReadSize /\ r > 0
  BY BulkAssumption
<1>3. ASSUME NEW i \in Nat
      PROVE  i * r \in Nat /\ Buffered(body, i) = IF i * r <= size THEN i * r ELSE size
  <2>1. i * r \in Nat
    OBVIOUS
  <2>2. Buffered(body, i) = Min({i * r, size})
    BY <1>1, <1>2 DEF Buffered
  <2>. QED
    BY <2>1, <2>2, MinOfTwo
<1>4. 0 * r = 0
  OBVIOUS
<1>5. k = Reads(body) => k * r >= size
  <2>. SUFFICES ASSUME k = Reads(body) PROVE k * r >= size
    OBVIOUS
  <2>1. PICK a \in Nat : a = size + r - 1
    BY <1>2
  <2>2. k = a \div r
    BY <1>1, <1>2, <2>1 DEF Reads
  <2>3. a < k * r + r
    BY <1>2, <2>1, <2>2, Quotient
  <2>4. k * r \in Nat
    OBVIOUS
  <2>. QED
    BY <1>2, <2>1, <2>3, <2>4
<1>. QED
  BY <1>1, <1>3, <1>4, <1>5

(* A temp file never holds more than the cap, one that is handed on is the *)
(* whole body, and only a body beyond the cap is refused for its size,     *)
(* for any size, chunk and cap (utils.py 51-87).                           *)
THEOREM TempFilesKeepTheCap == Spec => []TempWithinCap
<1>1. Init => StreamInv
  BY DEF Init, StreamInit, StreamIdle, StreamInv, TempWithinCap
<1>2. StreamInv /\ [Next]_vars => StreamInv'
  <2>. SUFFICES ASSUME StreamInv, StreamNext \/ UNCHANGED streamVars PROVE StreamInv'
    BY DEF Next, vars, machineVars, DecideAccess, DecideImage, DecideVideo, DecideType, DecideQr,
           Decide
  <2>1. CASE MakeTemp
    <3>1. sent \in Bodies /\ Buffered(sent, 0) = 0
      BY <2>1, BufferedSize DEF StreamInv, MakeTemp
    <3>2. sent' = sent /\ chunks' = 0 /\ chunks = 0
      BY <2>1 DEF StreamInv, MakeTemp
    <3>3. Buffered(sent, chunks)' = 0
      BY <3>1, <3>2 DEF Buffered
    <3>. QED
      BY <2>1, <3>1, <3>2, <3>3, StreamAssumption DEF StreamInv, MakeTemp, TempWithinCap
  <2>2. CASE StreamChunk
    <3>1. PICK body \in Bodies : body = sent
      BY <2>2 DEF StreamInv, StreamChunk
    <3>2. PICK k \in Nat : k = chunks + 1
      BY DEF StreamInv
    <3>3. /\ Buffered(body, k) \in Nat /\ Buffered(body, k) <= body.size /\ body.size \in Nat
          /\ Buffered(body, k - 1) \in Nat
      BY <3>2, BufferedSize DEF StreamInv
    <3>4. PICK after : after = AfterRead(body, k, MaxStream)
      OBVIOUS
    <3>5. /\ after \in {"processing_failed", "client_gone", "too_large", "read"}
          /\ after = "read" => Buffered(body, k) <= MaxStream
          /\ after = "too_large" => body.size > MaxStream
      BY <3>3, <3>4, StreamAssumption DEF AfterRead
    <3>6. sent' = body /\ chunks' = k /\ \A i : Buffered(sent, i)' = Buffered(body, i)
      BY <2>2, <3>1, <3>2 DEF StreamChunk, Buffered
    <3>7. CASE disk' = Written(k) /\ spc' = IF after = "read" THEN "streaming" ELSE after
      <4>1. CASE after = "read"
        <5>1. disk' = {Buffered(body, k)} /\ spc' = "streaming"
          BY <3>1, <3>4, <3>7, <4>1 DEF Written
        <5>. QED
          BY <3>1, <3>2, <3>5, <3>6, <4>1, <5>1 DEF StreamInv, TempWithinCap
      <4>2. CASE after # "read"
        <5>1. disk' = disk /\ spc' = after
          BY <3>1, <3>4, <3>7, <4>2 DEF Written
        <5>. QED
          BY <2>2, <3>1, <3>2, <3>5, <3>6, <4>2, <5>1 DEF StreamInv, TempWithinCap, StreamChunk
      <4>. QED
        BY <4>1, <4>2
    <3>8. CASE /\ after = "read" /\ spc' = "disk_failed"
               /\ \E n \in Buffered(body, k - 1)..Buffered(body, k) : disk' = {n}
      <4>1. \A n \in disk' : n <= MaxStream
        BY <3>3, <3>5, <3>8, StreamAssumption
      <4>. QED
        BY <3>1, <3>2, <3>6, <3>8, <4>1 DEF StreamInv, TempWithinCap
    <3>. QED
      BY <2>2, <3>1, <3>2, <3>4, <3>7, <3>8 DEF StreamChunk
  <2>3. CASE CancelStream
    BY <2>3 DEF StreamInv, CancelStream, TempWithinCap
  <2>4. CASE UnlinkTemp
    BY <2>4 DEF StreamInv, UnlinkTemp, TempWithinCap, Aborts
  <2>5. CASE EndStream
    <3>1. sent \in Bodies /\ Buffered(sent, chunks) = sent.size
      BY <2>5, BufferedSize DEF StreamInv, EndStream
    <3>. QED
      BY <2>5, <3>1 DEF StreamInv, EndStream, TempWithinCap
  <2>6. CASE CallerRemoves
    BY <2>6 DEF StreamInv, CallerRemoves, TempWithinCap
  <2>7. CASE UNCHANGED streamVars
    BY <2>7 DEF StreamInv, streamVars, TempWithinCap, Buffered
  <2>. QED
    BY <2>1, <2>2, <2>3, <2>4, <2>5, <2>6, <2>7 DEF StreamNext
<1>3. StreamInv => TempWithinCap
  BY DEF StreamInv
<1>. QED
  BY <1>1, <1>2, <1>3, PTL DEF Spec

=============================================================================

------------------------- MODULE RequestAuthProofs --------------------------
(***************************************************************************)
(* Proofs about the Pool API's two ways in: RequestAuth, for any handlers, *)
(* request ids and bodies, any skew and any memory, and WalletLogin, for   *)
(* any handlers, wallets, nonces and lifetimes.                            *)
(***************************************************************************)
EXTENDS MCPoolApi, TLAPS

(***************************************************************************)
(* RequestAuth                                                             *)
(***************************************************************************)

(* Nothing is stored and no request is under way.                          *)
LEMMA InitIInv == Init => IInv
<1> SUFFICES ASSUME Init PROVE IInv
  OBVIOUS
<1> USE DEF Init
<1>1. TypeOK
  BY DEF TypeOK
<1>2. Remembered /\ RowsAreTaken /\ OneRequestPerId
  BY DEF Remembered, RowsAreTaken, OneRequestPerId, AcceptedIsTaken, ApartInTime, At
<1>3. UnusableStays /\ OnlyUsablePass /\ ReuseIsAudited
  BY DEF UnusableStays, OnlyUsablePass, ReuseIsAudited, At
<1> QED
  BY <1>1, <1>2, <1>3 DEF IInv

(* What every action of a handler except the insertion keeps: the rows and *)
(* the requests taken, and the clock.                                      *)
LEMMA TablesKept ==
  ASSUME IInv, UNCHANGED <<now, replay, taken>>
  PROVE  Remembered' /\ RowsAreTaken' /\ ApartInTime'
BY DEF IInv, Remembered, RowsAreTaken, OneRequestPerId, ApartInTime

(* The other properties speak of each handler: a step of one handler       *)
(* leaves those of the others alone.                                       *)
LEMMA HandlersKept ==
  ASSUME IInv, NEW h \in Handlers, NEW f,
         handler' = [handler EXCEPT ![h] = f],
         audit \subseteq audit', taken \subseteq taken',
         UNCHANGED <<now, credential, notAfter>>,
         f # None => /\ f \in Flight
                     /\ ~f.usable => ~Usable
                     /\ f.at \in PastBinding => f.usable
                     /\ f.at = "reused" => f.request \in audit'
                     /\ f.at = "accepted" => \E t \in taken' : t.request = f.request
  PROVE  /\ handler' \in [Handlers -> Flight \union {None}]
         /\ UnusableStays' /\ OnlyUsablePass' /\ ReuseIsAudited' /\ AcceptedIsTaken'
<1> handler \in [Handlers -> Flight \union {None}]
  BY DEF IInv, TypeOK
<1>1. handler' \in [Handlers -> Flight \union {None}]
  OBVIOUS
<1>2. \A g \in Handlers : handler'[g] = IF g = h THEN f ELSE handler[g]
  OBVIOUS
<1>3. Usable' = Usable
  BY DEF Usable
<1>4. UnusableStays'
  BY <1>2, <1>3 DEF UnusableStays, IInv
<1>5. OnlyUsablePass'
  BY <1>2 DEF OnlyUsablePass, IInv
<1>6. ReuseIsAudited'
  BY <1>2 DEF ReuseIsAudited, At, IInv
<1>7. AcceptedIsTaken'
  BY <1>2 DEF AcceptedIsTaken, At, IInv, OneRequestPerId
<1> QED
  BY <1>1, <1>4, <1>5, <1>6, <1>7

(* A step that goes on within one handler's request.                       *)
LEMMA GotoFlight ==
  ASSUME TypeOK, NEW h \in Handlers, handler[h] # None,
         NEW step \in {"binding", "record", "accepted", "compare", "audit", "reused"},
         Goto(h, step)
  PROVE  \E f \in Flight : /\ handler' = [handler EXCEPT ![h] = f]
                           /\ f.at = step
                           /\ f.request = handler[h].request
                           /\ f.usable = handler[h].usable
<1> DEFINE f == [handler[h] EXCEPT !.at = step]
<1>1. handler[h] \in Flight
  BY DEF TypeOK
<1>2. /\ f \in Flight /\ f.at = step
      /\ f.request = handler[h].request /\ f.usable = handler[h].usable
  BY <1>1 DEF Flight
<1>3. handler' = [handler EXCEPT ![h] = f]
  BY DEF Goto
<1> QED
  BY Zenon, <1>2, <1>3

(* The properties other than the tables' own.                              *)
LEMMA StepKeeps ==
  ASSUME IInv, NEW h \in Handlers, handler[h] # None,
         NEW step \in PastBinding,
         handler[h].at \in PastBinding \/ Usable,
         Goto(h, step),
         audit \subseteq audit', taken \subseteq taken',
         step = "reused" => handler[h].request \in audit',
         step = "accepted" => \E t \in taken' : t.request = handler[h].request,
         UNCHANGED <<now, credential, notAfter>>
  PROVE  /\ handler' \in [Handlers -> Flight \union {None}]
         /\ UnusableStays' /\ OnlyUsablePass' /\ ReuseIsAudited' /\ AcceptedIsTaken'
<1>1. PICK f \in Flight : /\ handler' = [handler EXCEPT ![h] = f]
                          /\ f.at = step
                          /\ f.request = handler[h].request
                          /\ f.usable = handler[h].usable
  BY GotoFlight DEF IInv, PastBinding
<1>2. handler[h] \in Flight
  BY DEF IInv, TypeOK
<1>3. handler[h].usable
  BY <1>2 DEF IInv, OnlyUsablePass, UnusableStays, Flight
<1> QED
  BY <1>1, <1>3, HandlersKept

(* A handler that ends leaves what it wrote.                               *)
LEMMA FinishKeeps ==
  ASSUME IInv, NEW h \in Handlers, Finish(h),
         audit \subseteq audit', taken \subseteq taken',
         UNCHANGED <<now, credential, notAfter>>
  PROVE  /\ handler' \in [Handlers -> Flight \union {None}]
         /\ UnusableStays' /\ OnlyUsablePass' /\ ReuseIsAudited' /\ AcceptedIsTaken'
<1>1. handler' = [handler EXCEPT ![h] = None]
  BY DEF Finish
<1> QED
  BY <1>1, HandlersKept

(* A step of a handler that leaves the tables alone.                       *)
LEMMA QuietStep ==
  ASSUME IInv, UNCHANGED <<now, notAfter, replay, taken>>,
         handler' \in [Handlers -> Flight \union {None}],
         UnusableStays' /\ OnlyUsablePass' /\ ReuseIsAudited' /\ AcceptedIsTaken'
  PROVE  IInv'
<1>1. TypeOK'
  BY DEF IInv, TypeOK
<1>2. Remembered' /\ RowsAreTaken' /\ ApartInTime'
  BY TablesKept
<1> QED
  BY <1>1, <1>2 DEF IInv, OneRequestPerId

(* The insertion: no row of the id is there, so whatever was taken under   *)
(* the id before is past its memory.                                       *)
LEMMA InsertKeeps ==
  ASSUME IInv, NEW r \in Requests, Inserts(r), Insert(r),
         UNCHANGED <<now, notAfter>>,
         handler' \in [Handlers -> Flight \union {None}]
  PROVE  TypeOK' /\ Remembered' /\ RowsAreTaken' /\ ApartInTime'
<1> DEFINE row == [request |-> r, forgetAfter |-> now + Memory]
           new == [request |-> r, at |-> now]
<1> USE RequestAuthAssumption
<1>1. replay' = replay \union {row} /\ taken' = taken \union {new}
  BY DEF Insert, MemoryWritten
<1>2. now \in Nat /\ row \in [request : Requests, forgetAfter : Nat]
      /\ new \in [request : Requests, at : Nat]
  BY DEF IInv, TypeOK
<1>3. \A other \in replay : other.request.id # r.id
  BY DEF Inserts, RowsOf
<1>4. TypeOK'
  BY <1>1, <1>2, <1>3 DEF IInv, TypeOK
<1>5. Remembered'
  <2>1. row \in replay' /\ row.request.id = new.request.id
        /\ row.forgetAfter >= new.at + Memory /\ new.at <= now
    BY <1>1, <1>2
  <2> QED
    BY <1>1, <2>1, Zenon DEF IInv, Remembered
<1>6. RowsAreTaken'
  <2>1. new \in taken' /\ new.request = row.request
    BY <1>1
  <2> QED
    BY <1>1, <2>1, Zenon DEF IInv, RowsAreTaken
<1>7. \A t \in taken : t.request.id = r.id => t.at + Memory <= now
  <2> SUFFICES ASSUME NEW t \in taken, t.request.id = r.id PROVE t.at + Memory <= now
    OBVIOUS
  <2>1. t.at \in Nat
    BY DEF IInv, TypeOK
  <2>2. ~(now < t.at + Memory)
    BY <1>3 DEF IInv, Remembered
  <2> QED
    BY <1>2, <2>1, <2>2
<1>8. ApartInTime'
  BY <1>1, <1>7 DEF IInv, OneRequestPerId, ApartInTime
<1> QED
  BY <1>4, <1>5, <1>6, <1>8

(* The insert of a request id that is not there yet.                       *)
LEMMA RecordKeeps ==
  ASSUME IInv, NEW h \in Handlers, RecordAttempt(h)
  PROVE  IInv'
<1> DEFINE r == handler[h].request
<1>1. handler[h] # None /\ handler[h].at \in PastBinding
  BY DEF RecordAttempt, At, PastBinding
<1>2. handler[h] \in Flight /\ r \in Requests
  BY <1>1 DEF IInv, TypeOK, Flight
<1>3. CASE ~Inserts(r)
  <2>1. Goto(h, "compare") /\ UNCHANGED <<now, credential, notAfter, audit, replay, taken>>
    BY <1>3 DEF RecordAttempt
  <2>2. /\ handler' \in [Handlers -> Flight \union {None}]
        /\ UnusableStays' /\ OnlyUsablePass' /\ ReuseIsAudited' /\ AcceptedIsTaken'
    BY <1>1, <2>1, StepKeeps DEF PastBinding
  <2> QED
    BY <2>1, <2>2, QuietStep
<1>4. CASE Inserts(r)
  <2>1. /\ Insert(r) /\ Goto(h, "accepted")
        /\ UNCHANGED <<now, credential, notAfter, audit>> /\ UNCHANGED <<now, notAfter>>
    BY <1>4 DEF RecordAttempt
  <2>2. taken \subseteq taken' /\ \E t \in taken' : t.request = r
    <3>1. taken' = taken \union {[request |-> r, at |-> now]}
      BY <2>1 DEF Insert
    <3>2. [request |-> r, at |-> now].request = r
      OBVIOUS
    <3> QED
      BY <3>1, <3>2, Zenon
  <2>3. /\ handler' \in [Handlers -> Flight \union {None}]
        /\ UnusableStays' /\ OnlyUsablePass' /\ ReuseIsAudited' /\ AcceptedIsTaken'
    BY <1>1, <2>1, <2>2, StepKeeps DEF PastBinding
  <2>4. TypeOK' /\ Remembered' /\ RowsAreTaken' /\ ApartInTime'
    BY <1>2, <1>4, <2>1, <2>3, InsertKeeps
  <2> QED
    BY <2>3, <2>4 DEF IInv, OneRequestPerId
<1> QED
  BY <1>3, <1>4

(* A statement may have taken effect although its answer was lost.         *)
LEMMA LoseAnswerKeeps ==
  ASSUME IInv, NEW h \in Handlers, LoseAnswer(h)
  PROVE  IInv'
<1> DEFINE r == handler[h].request
<1>1. /\ Finish(h) /\ handler[h] # None
      /\ audit \subseteq audit' /\ taken \subseteq taken'
      /\ UNCHANGED <<now, credential, notAfter>>
      /\ (Inserts(r) /\ Insert(r)) \/ UNCHANGED <<replay, taken>>
  BY DEF LoseAnswer, Unavailable, At, Insert
<1>2. r \in Requests
  BY <1>1 DEF IInv, TypeOK, Flight
<1>3. /\ handler' \in [Handlers -> Flight \union {None}]
      /\ UnusableStays' /\ OnlyUsablePass' /\ ReuseIsAudited' /\ AcceptedIsTaken'
  BY <1>1, FinishKeeps
<1>4. CASE Inserts(r) /\ Insert(r)
  <2>1. TypeOK' /\ Remembered' /\ RowsAreTaken' /\ ApartInTime'
    BY <1>1, <1>2, <1>3, <1>4, InsertKeeps
  <2> QED
    BY <1>3, <2>1 DEF IInv, OneRequestPerId
<1>5. CASE UNCHANGED <<replay, taken>>
  BY <1>1, <1>3, <1>5, QuietStep
<1> QED
  BY <1>1, <1>4, <1>5

(* The steps of a handler.                                                 *)
LEMMA HandlerKeeps ==
  ASSUME IInv, NEW h \in Handlers,
         \/ \E r \in Requests : Verify(h, r)
         \/ ReadBinding(h) \/ Refuse(h) \/ RecordAttempt(h)
         \/ Compare(h) \/ AuditReuse(h) \/ Answer(h) \/ Fail(h) \/ LoseAnswer(h)
  PROVE  IInv'
<1>1. ASSUME NEW r \in Requests, Verify(h, r) PROVE IInv'
  <2> DEFINE f == [at |-> "binding", request |-> r, started |-> now, usable |-> Usable]
  <2>1. /\ handler' = [handler EXCEPT ![h] = f]
        /\ UNCHANGED <<now, credential, notAfter, replay, audit, taken>>
    BY <1>1 DEF Verify
  <2>2. f \in Flight
    BY DEF Flight, Usable, IInv, TypeOK
  <2>3. f.at = "binding" /\ f.usable = Usable
    OBVIOUS
  <2>4. f.at \notin PastBinding /\ f.at # "reused" /\ f.at # "accepted"
    BY <2>3 DEF PastBinding
  <2> HIDE DEF f
  <2>5. /\ handler' \in [Handlers -> Flight \union {None}]
        /\ UnusableStays' /\ OnlyUsablePass' /\ ReuseIsAudited' /\ AcceptedIsTaken'
    BY ZenonT(60), <2>1, <2>2, <2>3, <2>4, HandlersKept
  <2> QED
    BY <2>1, <2>5, QuietStep
<1>2. CASE ReadBinding(h)
  <2>1. /\ handler[h] # None /\ Usable /\ Goto(h, "record")
        /\ UNCHANGED <<now, credential, notAfter, replay, audit, taken>>
    BY <1>2 DEF ReadBinding, At, StateAllows
  <2>2. /\ handler' \in [Handlers -> Flight \union {None}]
        /\ UnusableStays' /\ OnlyUsablePass' /\ ReuseIsAudited' /\ AcceptedIsTaken'
    BY <2>1, StepKeeps DEF PastBinding
  <2> QED
    BY <2>1, <2>2, QuietStep
<1>3. CASE Finish(h) /\ UNCHANGED <<now, credential, notAfter, replay, audit, taken>>
  BY <1>3, FinishKeeps, QuietStep
<1>4. CASE Compare(h)
  <2>1. /\ handler[h] # None /\ handler[h].at \in PastBinding
        /\ UNCHANGED <<now, credential, notAfter, replay, audit, taken>>
        /\ \/ Goto(h, "accepted") /\ \E row \in replay : row.request = handler[h].request
           \/ Goto(h, "audit") \/ Finish(h)
    BY <1>4 DEF Compare, RowsOf, At, PastBinding
  <2>2. ASSUME NEW step \in {"accepted", "audit"}, Goto(h, step),
               step = "accepted" => \E row \in replay : row.request = handler[h].request
        PROVE  /\ handler' \in [Handlers -> Flight \union {None}]
               /\ UnusableStays' /\ OnlyUsablePass' /\ ReuseIsAudited' /\ AcceptedIsTaken'
    <3>1. step = "accepted" => \E t \in taken' : t.request = handler[h].request
      BY <2>1, <2>2 DEF IInv, RowsAreTaken
    <3> QED
      BY <2>1, <2>2, <3>1, StepKeeps DEF PastBinding
  <2> QED
    BY <2>1, <2>2, <1>3, QuietStep
<1>5. CASE AuditReuse(h)
  <2>1. /\ handler[h] # None /\ handler[h].at \in PastBinding /\ Goto(h, "reused")
        /\ audit \subseteq audit' /\ handler[h].request \in audit'
        /\ UNCHANGED <<now, credential, notAfter, replay, taken>>
    BY <1>5, SMTT(20) DEF AuditReuse, At, PastBinding
  <2>2. /\ handler' \in [Handlers -> Flight \union {None}]
        /\ UnusableStays' /\ OnlyUsablePass' /\ ReuseIsAudited' /\ AcceptedIsTaken'
    BY <2>1, StepKeeps DEF PastBinding
  <2> QED
    BY <2>1, <2>2, QuietStep
<1>6. CASE RecordAttempt(h)
  BY <1>6, RecordKeeps
<1>7. CASE Refuse(h) \/ Answer(h) \/ Fail(h)
  BY <1>3, <1>7 DEF Refuse, Answer, Fail, Unavailable
<1>8. CASE LoseAnswer(h)
  BY <1>8, LoseAnswerKeeps
<1> QED
  BY <1>1, <1>2, <1>4, <1>5, <1>6, <1>7, <1>8

(* A row that is deleted is one whose every request is past its memory.    *)
LEMMA ForgetKeeps ==
  ASSUME IInv, NEW row \in replay, Forget(row)
  PROVE  IInv'
<1> USE RequestAuthAssumption
<1>1. /\ now >= row.forgetAfter /\ replay' = replay \ {row}
      /\ UNCHANGED <<now, credential, notAfter, audit, handler, taken>>
  BY DEF Forget, Due
<1>2. TypeOK'
  BY <1>1 DEF IInv, TypeOK
<1>3. Remembered'
  <2> SUFFICES ASSUME NEW t \in taken, now < t.at + Memory
               PROVE  \E other \in replay' : /\ other.request.id = t.request.id
                                             /\ other.forgetAfter >= t.at + Memory
    BY <1>1 DEF IInv, Remembered
  <2>1. PICK other \in replay : /\ other.request.id = t.request.id
                                /\ other.forgetAfter >= t.at + Memory
    BY DEF IInv, Remembered
  <2>2. now \in Nat /\ row.forgetAfter \in Nat /\ other.forgetAfter \in Nat /\ t.at \in Nat
    BY DEF IInv, TypeOK
  <2>3. other # row
    BY <1>1, <2>1, <2>2
  <2> QED
    BY <1>1, <2>1, <2>3
<1>4. RowsAreTaken' /\ OneRequestPerId'
  BY <1>1 DEF IInv, RowsAreTaken, OneRequestPerId, AcceptedIsTaken, ApartInTime, At
<1>5. UnusableStays' /\ OnlyUsablePass' /\ ReuseIsAudited'
  BY <1>1 DEF IInv, UnusableStays, OnlyUsablePass, ReuseIsAudited, At, Usable
<1> QED
  BY <1>2, <1>3, <1>4, <1>5 DEF IInv

(* Revocations, graces and the clock only ever take a credential away.     *)
LEMMA OutsideKeeps ==
  ASSUME IInv, Revoke \/ BeginGrace \/ Tick
  PROVE  IInv'
<1> USE RequestAuthAssumption
<1>1. /\ UNCHANGED <<replay, audit, handler, taken>>
      /\ now' \in Nat /\ now <= now' /\ notAfter' \in Nat \union {None}
  BY DEF Revoke, BeginGrace, Tick, IInv, TypeOK
<1>2. TypeOK'
  BY <1>1 DEF IInv, TypeOK
<1>3. Remembered'
  BY <1>1 DEF IInv, Remembered, TypeOK
<1>4. ~Usable => ~Usable'
  BY DEF Usable, Revoke, BeginGrace, Tick, IInv, TypeOK
<1>5. UnusableStays' /\ OnlyUsablePass' /\ ReuseIsAudited'
  BY <1>1, <1>4 DEF IInv, UnusableStays, OnlyUsablePass, ReuseIsAudited, At
<1>6. RowsAreTaken' /\ OneRequestPerId'
  BY <1>1 DEF IInv, RowsAreTaken, OneRequestPerId, AcceptedIsTaken, ApartInTime, At
<1> QED
  BY <1>2, <1>3, <1>5, <1>6 DEF IInv

(* Every statement of every handler, the clock and the operator.           *)
LEMMA StepIInv == IInv /\ [Next]_vars => IInv'
<1> SUFFICES ASSUME IInv, [Next]_vars PROVE IInv'
  OBVIOUS
<1>1. CASE UNCHANGED vars
  BY <1>1 DEF vars, IInv, TypeOK, Remembered, RowsAreTaken, OneRequestPerId,
              AcceptedIsTaken, ApartInTime, UnusableStays, Usable,
              OnlyUsablePass, ReuseIsAudited, At
<1>2. CASE Next
  BY <1>2, HandlerKeeps, ForgetKeeps, OutsideKeeps DEF Next
<1> QED
  BY <1>1, <1>2

(* Every reachable state satisfies the inductive invariant: record_attempt *)
(* and the trigger on deletion keep every taken request remembered for its *)
(* memory, and a credential that became unusable stays so.                 *)
THEOREM Invariance == Spec => []IInv
BY InitIInv, StepIInv, PTL DEF Spec

(* record_attempt never accepts two requests under one id within the       *)
(* memory, for any number of concurrent requests.                          *)
THEOREM ReplaysAreRefused == Spec => []OneRequestPerId
<1>1. IInv => OneRequestPerId
  BY DEF IInv
<1> QED
  BY <1>1, Invariance, PTL

(* verify refuses what comes in after a revocation or the end of a grace.  *)
THEOREM RevocationTakesEffect == Spec => []RevocationIsImmediate
<1>1. IInv => RevocationIsImmediate
  BY DEF IInv, OnlyUsablePass, PastBinding, RevocationIsImmediate, At
<1> QED
  BY <1>1, Invariance, PTL

(* audit_reuse comes before every refusal of a reuse.                      *)
THEOREM ReusesAreAudited == Spec => []ReuseIsAudited
<1>1. IInv => ReuseIsAudited
  BY DEF IInv
<1> QED
  BY <1>1, Invariance, PTL

(***************************************************************************)
(* WalletLogin                                                             *)
(***************************************************************************)
(* The row that spends the nonce of a login's signature.                   *)
RowOf(f) ==
  [address |-> f.address, nonce |-> f.signature.nonce, expires |-> f.signature.expires]

(* A login under way, from its fields.                                     *)
Login(at, signature, address, nonce, member, created) ==
  [at |-> at, signature |-> signature, address |-> address, nonce |-> nonce,
   member |-> member, created |-> created]

(* What a login under way is like, and what its uncommitted rows are to    *)
(* the committed ones.                                                     *)
SoundLogin(f) ==
  /\ f = Login(f.at, f.signature, f.address, f.nonce, f.member, f.created)
  /\ f.address = L!Recover(f.signature)
  /\ f.at = "nonce" => f.nonce = {}
  /\ f.at # "nonce" => f.nonce = {RowOf(f)}
  /\ f.at \in {"member", "commit"} => \A r \in nonces : ~L!SameNonce(r, RowOf(f))
  /\ f.at \in {"nonce", "member"} => f.created = {}
  /\ \A m, n \in f.created : m = n
  /\ \A m \in f.created : m.address = f.address
  /\ f.at = "commit" => \A m \in f.created, n \in members : n.address # m.address

(* The rows of two logins under way have different keys: the second        *)
(* insertion waits.                                                        *)
RowsApart(f, g) ==
  /\ \A r \in f.nonce, s \in g.nonce : ~L!SameNonce(r, s)
  /\ \A m \in f.created, n \in g.created : m.address # n.address

LoginsSound ==
  /\ login = [h \in Handlers |-> login[h]]
  /\ \A h \in Handlers : login[h] # None => SoundLogin(login[h])
  /\ \A h, g \in Handlers :
       h # g /\ login[h] # None /\ login[g] # None => RowsApart(login[h], login[g])

TicketsSound ==
  /\ prunes \in Nat
  /\ \A t \in tickets : t.address = L!Recover(t.signature)
  /\ prunes = 0 => \A t \in tickets : \E r \in nonces :
                      r.address = t.address /\ r.nonce = t.signature.nonce
  /\ L!SpentForATicket
  /\ prunes = 0 => L!SignatureBuysOne

LoginInv == LoginsSound /\ TicketsSound /\ L!OneAccountPerWallet

(* A step of one login that leaves the committed rows alone keeps what is  *)
(* known of the others.                                                    *)
LEMMA LoginsKept ==
  ASSUME LoginsSound, NEW h \in Handlers, NEW f, login' = [login EXCEPT ![h] = f],
         UNCHANGED <<nonces, members>>,
         f # None => /\ SoundLogin(f)
                     /\ \A g \in Handlers \ {h} : login[g] # None => RowsApart(f, login[g])
  PROVE  LoginsSound'
<1>1. \A g \in Handlers : login'[g] = IF g = h THEN f ELSE login[g]
  BY Zenon DEF LoginsSound
<1>2. login' = [g \in Handlers |-> login'[g]]
  BY Zenon DEF LoginsSound
<1>3. ASSUME NEW g \in Handlers, login'[g] # None PROVE SoundLogin(login[g])'
  <2>1. SoundLogin(login'[g])
    BY Zenon, <1>1, <1>3 DEF LoginsSound
  <2> QED
    BY Zenon, <2>1 DEF SoundLogin
<1>4. ASSUME NEW g \in Handlers, NEW k \in Handlers,
             g # k, login'[g] # None, login'[k] # None
      PROVE  RowsApart(login[g], login[k])'
  <2>1. RowsApart(login'[g], login'[k]) \/ RowsApart(login'[k], login'[g])
    BY Zenon, <1>1, <1>4 DEF LoginsSound
  <2> QED
    BY Zenon, <2>1 DEF RowsApart, L!SameNonce
<1> QED
  BY Zenon, <1>2, <1>3, <1>4 DEF LoginsSound

(* The tickets are as they were while no row is committed or deleted.      *)
LEMMA TicketsKept ==
  ASSUME LoginInv, UNCHANGED <<nonces, members, tickets, prunes>>
  PROVE  TicketsSound' /\ L!OneAccountPerWallet'
BY Zenon DEF LoginInv, TicketsSound, L!SpentForATicket, L!SignatureBuysOne,
             L!OneAccountPerWallet

(* A login that ends leaves nothing behind.                                *)
LEMMA LoginEnds ==
  ASSUME LoginInv, NEW h \in Handlers, login' = [login EXCEPT ![h] = None],
         UNCHANGED <<nonces, members, tickets, prunes>>
  PROVE  LoginInv'
BY Zenon, LoginsKept, TicketsKept DEF LoginInv

(* A login begins with no row.                                             *)
LEMMA LoginBegins ==
  ASSUME LoginInv, NEW h \in Handlers, NEW s, L!IssueTicket(h, s) PROVE LoginInv'
<1> DEFINE f == Login("nonce", s, L!Recover(s), {}, None, {})
<1>1. login' = [login EXCEPT ![h] = f] /\ UNCHANGED <<nonces, members, tickets, prunes>>
  BY Zenon DEF L!IssueTicket, Login
<1>2. SoundLogin(f)
  BY Zenon DEF SoundLogin, Login
<1>3. f.nonce = {} /\ f.created = {}
  BY DEF Login
<1> HIDE DEF f
<1>4. \A g \in Handlers : RowsApart(f, login[g])
  BY Zenon, <1>3 DEF RowsApart
<1> QED
  BY Zenon, <1>1, <1>2, <1>4, LoginsKept, TicketsKept DEF LoginInv

(* The fields of a login, and what setting one of them makes.              *)
LEMMA Fields ==
  ASSUME NEW a, NEW s, NEW d, NEW n, NEW m, NEW c
  PROVE  LET r == Login(a, s, d, n, m, c)
         IN  r.at = a /\ r.signature = s /\ r.address = d /\ r.nonce = n /\ r.created = c
BY DEF Login

LEMMA SetAt ==
  ASSUME NEW o, NEW a, NEW s, NEW d, NEW n, NEW m, NEW c, NEW x,
         o = Login(a, s, d, n, m, c)
  PROVE  [o EXCEPT !.at = x] = Login(x, s, d, n, m, c)
BY DEF Login

LEMMA SetNonce ==
  ASSUME NEW o, NEW a, NEW s, NEW d, NEW n, NEW m, NEW c, NEW x,
         o = Login(a, s, d, n, m, c)
  PROVE  [o EXCEPT !.nonce = x] = Login(a, s, d, x, m, c)
BY DEF Login

LEMMA SetMember ==
  ASSUME NEW o, NEW a, NEW s, NEW d, NEW n, NEW m, NEW c, NEW x,
         o = Login(a, s, d, n, m, c)
  PROVE  [o EXCEPT !.member = x] = Login(a, s, d, n, x, c)
BY DEF Login

LEMMA SetCreated ==
  ASSUME NEW o, NEW a, NEW s, NEW d, NEW n, NEW m, NEW c, NEW x,
         o = Login(a, s, d, n, m, c)
  PROVE  [o EXCEPT !.created = x] = Login(a, s, d, n, m, x)
BY DEF Login

(* The nonce is spent when neither a row nor another login has it.         *)
LEMMA NonceIsSpent ==
  ASSUME LoginInv, NEW h \in Handlers, L!SpendNonce(h) PROVE LoginInv'
<1> DEFINE o == login[h]
           f == Login("member", o.signature, o.address, {RowOf(o)}, o.member, o.created)
<1>0. o # None /\ o.at = "nonce" /\ SoundLogin(o) /\ L!NonceRow(h) = RowOf(o)
  BY Zenon DEF L!SpendNonce, L!At, LoginInv, LoginsSound, L!NonceRow, RowOf
<1>1. /\ login' = [login EXCEPT ![h].at = "member", ![h].nonce = {RowOf(o)}]
      /\ UNCHANGED <<nonces, members, tickets, prunes>>
  BY Zenon, <1>0 DEF L!SpendNonce
<1>2. login = [k \in Handlers |-> login[k]]
  BY Zenon DEF LoginInv, LoginsSound
<1>3. login' = [login EXCEPT ![h] =
                  [[o EXCEPT !.at = "member"] EXCEPT !.nonce = {RowOf(o)}]]
  BY Zenon, <1>1, <1>2
<1>4. o = Login("nonce", o.signature, o.address, o.nonce, o.member, o.created)
  BY Zenon, <1>0 DEF SoundLogin
<1>5. [[o EXCEPT !.at = "member"] EXCEPT !.nonce = {RowOf(o)}] = f
  <2> DEFINE p == [o EXCEPT !.at = "member"]
  <2>1. p = Login("member", o.signature, o.address, o.nonce, o.member, o.created)
    BY <1>4, SetAt
  <2> HIDE DEF p
  <2>2. [p EXCEPT !.nonce = {RowOf(o)}] = f
    BY <2>1, SetNonce
  <2> QED
    BY Zenon, <2>2 DEF p
<1>6. SoundLogin(f)
  <2>1. /\ f.at = "member" /\ f.signature = o.signature /\ f.address = o.address
        /\ f.nonce = {RowOf(o)} /\ f.member = o.member /\ f.created = o.created
        /\ f = Login(f.at, f.signature, f.address, f.nonce, f.member, f.created)
    BY DEF Login
  <2> HIDE DEF f
  <2>2. RowOf(f) = RowOf(o)
    BY Zenon, <2>1 DEF RowOf
  <2> QED
    BY <1>0, <2>1, <2>2 DEF SoundLogin, L!SpendNonce
<1>7. f.nonce = {RowOf(o)} /\ f.created = {}
  BY <1>0 DEF SoundLogin, Login
<1>8. ASSUME NEW g \in Handlers \ {h}, login[g] # None PROVE RowsApart(f, login[g])
  <2>1. \A r \in login[g].nonce : ~L!SameNonce(r, RowOf(o))
    BY Zenon, <1>0, <1>8 DEF L!SpendNonce, L!NonceKeyFree
  <2> QED
    BY Zenon, <1>7, <2>1 DEF RowsApart, L!SameNonce
<1>9. login' = [login EXCEPT ![h] = f]
  BY Zenon, <1>3, <1>5
<1> HIDE DEF f
<1> QED
  BY Zenon, <1>1, <1>6, <1>8, <1>9, LoginsKept, TicketsKept DEF LoginInv

(* An account is made where there is none, and no other login makes it.    *)
LEMMA MemberIsFound ==
  ASSUME LoginInv, NEW h \in Handlers, L!FindMember(h) PROVE LoginInv'
<1> DEFINE o == login[h]
           new == [address |-> o.address, id |-> L!NewId]
           found == L!MemberOf(h)
           y == IF found = {} THEN new.id ELSE (CHOOSE m \in found : TRUE).id
           z == IF found = {} THEN {new} ELSE {}
           f == Login("commit", o.signature, o.address, o.nonce, y, z)
<1>0. o # None /\ o.at = "member" /\ SoundLogin(o)
  BY Zenon DEF L!FindMember, L!At, LoginInv, LoginsSound
<1>1. /\ login' = [login EXCEPT ![h].at = "commit", ![h].member = y, ![h].created = z]
      /\ UNCHANGED <<nonces, members, tickets, prunes>>
  BY Zenon DEF L!FindMember
<1>2. /\ \A m \in z : m = new /\ m.address = o.address
      /\ \A m \in z, n \in members : n.address # m.address
  BY DEF L!MemberOf
<1>3. ASSUME NEW g \in Handlers \ {h}, login[g] # None,
             NEW m \in z, NEW n \in login[g].created
      PROVE  m.address # n.address
  BY Zenon, <1>2, <1>3 DEF L!FindMember, L!MemberKeyFree
<1> HIDE DEF y, z, found, new
<1>4. login' = [login EXCEPT ![h] =
                  [[[o EXCEPT !.at = "commit"] EXCEPT !.member = y] EXCEPT !.created = z]]
  BY Zenon, <1>1 DEF LoginInv, LoginsSound
<1>5. [[[o EXCEPT !.at = "commit"] EXCEPT !.member = y] EXCEPT !.created = z] = f
  <2>1. o = Login("member", o.signature, o.address, o.nonce, o.member, o.created)
    BY Zenon, <1>0 DEF SoundLogin
  <2> DEFINE p == [o EXCEPT !.at = "commit"]
  <2>2. p = Login("commit", o.signature, o.address, o.nonce, o.member, o.created)
    BY <2>1, SetAt
  <2> HIDE DEF p
  <2> DEFINE q == [p EXCEPT !.member = y]
  <2>3. q = Login("commit", o.signature, o.address, o.nonce, y, o.created)
    BY <2>2, SetMember
  <2> HIDE DEF q
  <2>4. [q EXCEPT !.created = z] = f
    BY <2>3, SetCreated
  <2> QED
    BY Zenon, <2>4 DEF p, q
<1>6. /\ f.at = "commit" /\ f.signature = o.signature /\ f.address = o.address
      /\ f.nonce = o.nonce /\ f.created = z
      /\ f = Login(f.at, f.signature, f.address, f.nonce, f.member, f.created)
  BY DEF Login
<1>7. login' = [login EXCEPT ![h] = f]
  BY Zenon, <1>4, <1>5
<1> HIDE DEF f
<1>8. SoundLogin(f)
  <2>1. RowOf(f) = RowOf(o)
    BY Zenon, <1>6 DEF RowOf
  <2> QED
    BY <1>0, <1>2, <1>6, <2>1 DEF SoundLogin
<1>9. ASSUME NEW g \in Handlers \ {h}, login[g] # None PROVE RowsApart(f, login[g])
  <2>1. RowsApart(o, login[g])
    BY Zenon, <1>0, <1>9 DEF LoginInv, LoginsSound
  <2> QED
    BY Zenon, <1>3, <1>6, <1>9, <2>1 DEF RowsApart
<1> QED
  BY Zenon, <1>1, <1>7, <1>8, <1>9, LoginsKept, TicketsKept DEF LoginInv

(* A commit makes the rows of one login visible.  No other login has a row *)
(* with their keys, and no ticket was bought with its signature before.    *)
LEMMA LoginCommits ==
  ASSUME LoginInv, NEW h \in Handlers, L!Commit(h) PROVE LoginInv'
<1> DEFINE o == login[h]
           f == Login("answer", o.signature, o.address, o.nonce, o.member, o.created)
           t == L!Ticket(h)
<1>0. o # None /\ o.at = "commit" /\ SoundLogin(o)
  BY Zenon DEF L!Commit, L!At, LoginInv, LoginsSound
<1>1. o.nonce = {RowOf(o)} /\ o.address = L!Recover(o.signature)
  BY <1>0 DEF SoundLogin
<1>2. /\ nonces' = nonces \union {RowOf(o)} /\ members' = members \union o.created
      /\ tickets' = tickets \union {t} /\ prunes' = prunes
      /\ login' = [login EXCEPT ![h].at = "answer"]
  BY Zenon, <1>1 DEF L!Commit, L!Goto, L!MembersWith
<1>3. t.address = o.address /\ t.signature = o.signature
  BY DEF L!Ticket
<1>4. RowOf(o).address = o.address /\ RowOf(o).nonce = o.signature.nonce
  BY DEF RowOf
<1>5. login' = [login EXCEPT ![h] = f]
  <2>1. o = Login("commit", o.signature, o.address, o.nonce, o.member, o.created)
    BY Zenon, <1>0 DEF SoundLogin
  <2>2. [o EXCEPT !.at = "answer"] = f
    BY <2>1, SetAt
  <2> QED
    BY Zenon, <1>2, <2>2 DEF LoginInv, LoginsSound
<1>6. /\ f.at = "answer" /\ f.signature = o.signature /\ f.address = o.address
      /\ f.nonce = o.nonce /\ f.created = o.created
      /\ f = Login(f.at, f.signature, f.address, f.nonce, f.member, f.created)
  BY DEF Login
<1> HIDE DEF f, t
<1>7. \A g \in Handlers : login'[g] = IF g = h THEN f ELSE login[g]
  BY Zenon, <1>5 DEF LoginInv, LoginsSound
<1>8. ASSUME NEW g \in Handlers, login'[g] # None PROVE SoundLogin(login[g])'
  <2>1. CASE g = h
    <3>1. RowOf(f) = RowOf(o)
      BY Zenon, <1>6 DEF RowOf
    <3> DEFINE k == login'[g]
    <3>2. k = f
      BY Zenon, <1>7, <2>1
    <3> HIDE DEF k
    <3>3. /\ k = Login(k.at, k.signature, k.address, k.nonce, k.member, k.created)
          /\ k.address = L!Recover(k.signature) /\ k.at = "answer" /\ k.nonce = {RowOf(k)}
          /\ \A m, n \in k.created : m = n
          /\ \A m \in k.created : m.address = k.address
      BY <1>0, <1>1, <1>6, <3>1, <3>2 DEF SoundLogin
    <3> QED
      BY <3>3 DEF SoundLogin, k
  <2>2. CASE g # h
    <3> DEFINE k == login[g]
    <3>1. login'[g] = k /\ k # None
      BY Zenon, <1>7, <1>8, <2>2
    <3>2. SoundLogin(k) /\ RowsApart(k, o)
      BY Zenon, <1>0, <2>2, <3>1 DEF LoginInv, LoginsSound
    <3> HIDE DEF k
    <3>3. k.at \in {"member", "commit"} => \A r \in nonces' : ~L!SameNonce(r, RowOf(k))
      <4> SUFFICES ASSUME k.at \in {"member", "commit"}, NEW r \in nonces'
                   PROVE  ~L!SameNonce(r, RowOf(k))
        OBVIOUS
      <4>1. k.nonce = {RowOf(k)} /\ \A q \in nonces : ~L!SameNonce(q, RowOf(k))
        BY <3>2 DEF SoundLogin
      <4>2. ~L!SameNonce(RowOf(o), RowOf(k))
        BY Zenon, <1>1, <3>2, <4>1 DEF RowsApart, L!SameNonce
      <4> QED
        BY Zenon, <1>2, <4>1, <4>2
    <3>4. k.at = "commit" => \A m \in k.created, n \in members' : n.address # m.address
      BY Zenon, <1>2, <3>2 DEF SoundLogin, RowsApart
    <3> QED
      BY Zenon, <3>1, <3>2, <3>3, <3>4 DEF SoundLogin
  <2> QED
    BY Zenon, <2>1, <2>2
<1>9. ASSUME NEW g \in Handlers, NEW k \in Handlers,
             g # k, login'[g] # None, login'[k] # None
      PROVE  RowsApart(login[g], login[k])'
  <2>1. \A i \in Handlers : login'[i] # None =>
          login[i] # None /\ login'[i].nonce = login[i].nonce
            /\ login'[i].created = login[i].created
    BY Zenon, <1>0, <1>6, <1>7
  <2>2. RowsApart(login[g], login[k])
    BY Zenon, <1>9, <2>1 DEF LoginInv, LoginsSound
  <2> QED
    BY Zenon, <1>9, <2>1, <2>2 DEF RowsApart
<1>10. LoginsSound'
  <2>1. login' = [g \in Handlers |-> login'[g]]
    BY Zenon, <1>5 DEF LoginInv, LoginsSound
  <2> QED
    BY Zenon, <1>8, <1>9, <2>1 DEF LoginsSound
<1>11. prunes = 0 => \A u \in tickets : u.signature # o.signature
  <2> SUFFICES ASSUME prunes = 0, NEW u \in tickets, u.signature = o.signature PROVE FALSE
    OBVIOUS
  <2>1. u.address = o.address
    BY Zenon, <1>1 DEF LoginInv, TicketsSound
  <2>2. PICK r \in nonces : r.address = u.address /\ r.nonce = u.signature.nonce
    BY Zenon DEF LoginInv, TicketsSound
  <2>3. L!SameNonce(r, RowOf(o))
    BY Zenon, <1>4, <2>1, <2>2 DEF L!SameNonce
  <2> QED
    BY <1>0, <2>3 DEF SoundLogin
<1>12. TicketsSound'
  <2>1. prunes' \in Nat /\ \A u \in tickets' : u.address = L!Recover(u.signature)
    BY Zenon, <1>1, <1>2, <1>3 DEF LoginInv, TicketsSound
  <2>2. prunes' = 0 => \A u \in tickets' : \E r \in nonces' :
                          r.address = u.address /\ r.nonce = u.signature.nonce
    BY Zenon, <1>2, <1>3, <1>4 DEF LoginInv, TicketsSound
  <2>3. L!SpentForATicket'
    <3>1. ASSUME NEW r \in nonces'
          PROVE  \E u \in tickets' : u.address = r.address /\ u.signature.nonce = r.nonce
      <4>1. CASE r \in nonces
        BY Zenon, <1>2, <4>1 DEF LoginInv, TicketsSound, L!SpentForATicket
      <4>2. CASE r = RowOf(o)
        BY Zenon, <1>2, <1>3, <1>4, <4>2
      <4> QED
        BY Zenon, <1>2, <4>1, <4>2
    <3> QED
      BY Zenon, <3>1 DEF L!SpentForATicket
  <2>4. prunes' = 0 => L!SignatureBuysOne'
    BY Zenon, <1>2, <1>3, <1>11 DEF LoginInv, TicketsSound, L!SignatureBuysOne
  <2> QED
    BY Zenon, <2>1, <2>2, <2>3, <2>4 DEF TicketsSound, L!Recover
<1>13. L!OneAccountPerWallet'
  <2>1. /\ \A m, n \in o.created : m = n
        /\ \A m \in o.created, n \in members : n.address # m.address
    BY <1>0 DEF SoundLogin
  <2> QED
    BY Zenon, <1>2, <2>1 DEF LoginInv, L!OneAccountPerWallet
<1> QED
  BY <1>10, <1>12, <1>13 DEF LoginInv

(* A deleted nonce leaves the tickets it bought.                           *)
LEMMA NonceIsPruned ==
  ASSUME LoginInv, NEW r \in nonces, L!Prune(r) PROVE LoginInv'
<1>1. /\ nonces' \subseteq nonces /\ prunes' \in Nat \ {0}
      /\ UNCHANGED <<members, tickets, login>>
  BY DEF L!Prune, LoginInv, TicketsSound
<1>2. LoginsSound'
  <2>1. ASSUME NEW h \in Handlers, login'[h] # None PROVE SoundLogin(login[h])'
    <3>1. SoundLogin(login'[h])
      BY Zenon, <1>1, <2>1 DEF LoginInv, LoginsSound
    <3> QED
      BY Zenon, <1>1, <3>1 DEF SoundLogin
  <2> QED
    BY Zenon, <1>1, <2>1 DEF LoginInv, LoginsSound, RowsApart
<1>3. TicketsSound'
  BY <1>1 DEF LoginInv, TicketsSound, L!SpentForATicket
<1> QED
  BY Zenon, <1>1, <1>2, <1>3 DEF LoginInv, L!OneAccountPerWallet

(* Nothing changes while the requests run.                                 *)
LEMMA LoginsIdle ==
  ASSUME LoginInv, UNCHANGED <<nonces, members, tickets, login, prunes>>
  PROVE  LoginInv'
<1>1. ASSUME NEW h \in Handlers, login'[h] # None PROVE SoundLogin(login[h])'
  <2>1. SoundLogin(login'[h])
    BY Zenon, <1>1 DEF LoginInv, LoginsSound
  <2> QED
    BY Zenon, <2>1 DEF SoundLogin
<1>2. LoginsSound'
  BY Zenon, <1>1 DEF LoginInv, LoginsSound, RowsApart
<1> QED
  BY Zenon, <1>2, TicketsKept DEF LoginInv

(* Every step of the logins keeps the invariant.                           *)
LEMMA LoginStep == LoginInv /\ [L!Next]_(L!vars) => LoginInv'
<1> SUFFICES ASSUME LoginInv, [L!Next]_(L!vars) PROVE LoginInv'
  OBVIOUS
<1>1. UNCHANGED <<nonces, members, tickets, login, prunes>> => LoginInv'
  BY Zenon, LoginsIdle
<1>2. ASSUME NEW h \in Handlers, L!NonceSpent(h) \/ L!Answer(h) \/ L!Fail(h) PROVE LoginInv'
  <2>1. /\ login' = [login EXCEPT ![h] = None] /\ nonces' = nonces
        /\ UNCHANGED <<members, tickets, prunes>>
    BY <1>2 DEF L!NonceSpent, L!Answer, L!Fail, L!Kept
  <2> QED
    BY Zenon, <2>1, LoginEnds
<1> QED
  BY Zenon, <1>1, <1>2, LoginBegins, NonceIsSpent, MemberIsFound, LoginCommits,
     NonceIsPruned
     DEF L!Next, L!vars, L!RefuseTicket, L!Tick

(* There is nothing to begin with.                                         *)
LEMMA InitLogin == MCInit => LoginInv
BY DEF MCInit, LoginInv, LoginsSound, TicketsSound, L!SpentForATicket, L!SignatureBuysOne,
       L!OneAccountPerWallet

(* The inductive invariant of the logins.                                  *)
THEOREM LoginInvariance == MCSpec => []LoginInv
<1>1. LoginInv /\ [MCNext]_<<vars, loginVars, shape>> => LoginInv'
  <2> SUFFICES ASSUME LoginInv, [MCNext]_<<vars, loginVars, shape>> PROVE LoginInv'
    OBVIOUS
  <2>1. CASE L!Next
    BY Zenon, <2>1, LoginStep
  <2>2. CASE UNCHANGED loginVars
    BY Zenon, <2>2, LoginsIdle DEF loginVars
  <2> QED
    BY Zenon, <2>1, <2>2 DEF MCNext
<1> QED
  BY <1>1, InitLogin, PTL DEF MCSpec

(* One signature buys one ticket, however often and by however many        *)
(* requests it is presented, as long as its nonce is kept; and no nonce is *)
(* spent for nothing (account.rs issue_ticket).                            *)
THEOREM SignaturesBuyOnce == MCSpec => []NonceBuysOneTicket
<1>1. LoginInv => NonceBuysOneTicket
  BY Zenon DEF LoginInv, TicketsSound, NonceBuysOneTicket
<1> QED
  BY <1>1, LoginInvariance, PTL

(* Concurrent first logins of a wallet make one account.                   *)
THEOREM WalletsAreAccounts == MCSpec => []OneAccountPerWallet
<1>1. LoginInv => OneAccountPerWallet
  BY Zenon DEF LoginInv, OneAccountPerWallet
<1> QED
  BY <1>1, LoginInvariance, PTL

=============================================================================

---------------------------- MODULE WalletLogin -----------------------------
(***************************************************************************)
(* The Pool API's wallet login (pool-api account.rs, pool-identity         *)
(* wallet.rs, migrations 0018 and 0026): a signature proves a wallet, and  *)
(* one transaction spends its nonce, finds or makes the account, and       *)
(* issues an enrolment ticket.                                             *)
(*                                                                         *)
(* A signature is the wallet that made it, the nonce, the expiry and       *)
(* whether it is over this pool's terms (domain, chain and purpose).  The  *)
(* API and the database read one clock.                                    *)
(***************************************************************************)
EXTENDS Naturals, FiniteSets

CONSTANTS
  Handlers, Wallets, Nonces,
  MaxLifetime,        \* LOGIN_MAX_LIFETIME_SECONDS
  MaxTime,            \* bound on the clock
  MaxFaults,          \* bound on failed statements, lost connections and crashes
  MaxPrunes,          \* bound on deletions of spent nonces
  None

VARIABLES
  now,
  nonces,     \* wallet_login_nonce: committed rows
  members,    \* member: committed rows
  tickets,    \* enrollment_ticket: committed rows, with the signature that bought them
  handler,    \* the login a handler runs, with its uncommitted rows, or None
  faults, prunes

vars == <<now, nonces, members, tickets, handler, faults, prunes>>

Signatures == [wallet : Wallets, nonce : Nonces, expires : 1 .. MaxTime, ours : BOOLEAN]

(* recover_login_address: the address a signature recovers to against this *)
(* pool's terms.  One made for other terms recovers to another address.    *)
Recover(s) == [wallet |-> s.wallet, ours |-> s.ours]

Addresses == [wallet : Wallets, ours : BOOLEAN]

At(h, step) == handler[h] # None /\ handler[h].at = step
Goto(h, step) == handler' = [handler EXCEPT ![h].at = step]

Acceptable(s) == now < s.expires /\ s.expires <= now + MaxLifetime

(* An expired signature, or one that claims too long a life.               *)
RefuseTicket(h, s) == handler[h] = None /\ ~Acceptable(s) /\ UNCHANGED vars

(* issue_ticket up to its transaction                                      *)
IssueTicket(h, s) ==
  /\ handler[h] = None /\ Acceptable(s)
  /\ handler' = [handler EXCEPT ![h] =
                   [at |-> "nonce", signature |-> s, address |-> Recover(s),
                    nonce |-> {}, member |-> None, created |-> {}]]
  /\ UNCHANGED <<now, nonces, members, tickets, faults, prunes>>

NonceRow(h) ==
  [address |-> handler[h].address, nonce |-> handler[h].signature.nonce,
   expires |-> handler[h].signature.expires]

SameNonce(a, b) == a.address = b.address /\ a.nonce = b.nonce

\* Mutant: the nonce is looked up first, so two logins both find it unspent.
NonceNotWaited(h) == TRUE

(* An insertion waits for the transaction that has the same key.           *)
NonceKeyFree(h) ==
  \A g \in Handlers \ {h} : handler[g] # None =>
    \A r \in handler[g].nonce : ~SameNonce(r, NonceRow(h))

SpendNonce(h) ==
  /\ At(h, "nonce") /\ NonceKeyFree(h)
  /\ \A r \in nonces : ~SameNonce(r, NonceRow(h))
  /\ handler' = [handler EXCEPT ![h].at = "member", ![h].nonce = {NonceRow(h)}]
  /\ UNCHANGED <<now, nonces, members, tickets, faults, prunes>>

(* Already spent: refused, and the transaction rolls back.                 *)
NonceSpent(h) ==
  /\ At(h, "nonce") /\ NonceKeyFree(h)
  /\ \E r \in nonces : SameNonce(r, NonceRow(h))
  /\ handler' = [handler EXCEPT ![h] = None]
  /\ UNCHANGED <<now, nonces, members, tickets, faults, prunes>>

(* A new account id is drawn at random: one that no row has.               *)
NewId ==
  Cardinality(members) + Cardinality({g \in Handlers : handler[g] # None /\ handler[g].created # {}})

MemberOf(h) == {m \in members : m.address = handler[h].address}

MemberKeyFree(h) ==
  \A g \in Handlers \ {h} : handler[g] # None =>
    \A m \in handler[g].created : m.address # handler[h].address

FindMember(h) ==
  /\ At(h, "member") /\ MemberKeyFree(h)
  /\ LET new == [address |-> handler[h].address, id |-> NewId]
         found == MemberOf(h)
     IN handler' = [handler EXCEPT
          ![h].at = "commit",
          ![h].member = IF found = {} THEN new.id ELSE (CHOOSE m \in found : TRUE).id,
          ![h].created = IF found = {} THEN {new} ELSE {}]
  /\ UNCHANGED <<now, nonces, members, tickets, faults, prunes>>

(* A ticket is told apart by its random bearer value, here by the number   *)
(* of tickets there were.                                                  *)
Ticket(h) ==
  [member |-> handler[h].member, address |-> handler[h].address,
   signature |-> handler[h].signature, bearer |-> Cardinality(tickets)]

MembersWith(h) == members \union handler[h].created

(* The ticket and the commit, which makes all three rows visible.          *)
Commit(h) ==
  /\ At(h, "commit")
  /\ nonces' = nonces \union handler[h].nonce
  /\ members' = MembersWith(h)
  /\ tickets' = tickets \union {Ticket(h)}
  /\ Goto(h, "answer")
  /\ UNCHANGED <<now, faults, prunes>>

Answer(h) ==
  /\ At(h, "answer")
  /\ handler' = [handler EXCEPT ![h] = None]
  /\ UNCHANGED <<now, nonces, members, tickets, faults, prunes>>

(* What a rollback leaves: nothing.                                        *)
Kept(h) == {}

(* A statement or the commit fails, or the process dies: the transaction   *)
(* rolls back, or its answer is lost.                                      *)
Fail(h) ==
  /\ handler[h] # None /\ faults < MaxFaults
  /\ nonces' = nonces \union Kept(h)
  /\ handler' = [handler EXCEPT ![h] = None]
  /\ faults' = faults + 1
  /\ UNCHANGED <<now, members, tickets, prunes>>

(* A spent nonce may be deleted once its signature has expired.            *)
Prune(r) ==
  /\ r \in nonces /\ now >= r.expires /\ prunes < MaxPrunes
  /\ nonces' = nonces \ {r}
  /\ prunes' = prunes + 1
  /\ UNCHANGED <<now, members, tickets, handler, faults>>

Tick ==
  /\ now < MaxTime /\ now' = now + 1
  /\ UNCHANGED <<nonces, members, tickets, handler, faults, prunes>>

Init ==
  /\ now = 0 /\ nonces = {} /\ members = {} /\ tickets = {}
  /\ handler = [h \in Handlers |-> None]
  /\ faults = 0 /\ prunes = 0

Next ==
  \/ \E h \in Handlers :
       \/ \E s \in Signatures : IssueTicket(h, s) \/ RefuseTicket(h, s)
       \/ SpendNonce(h) \/ NonceSpent(h) \/ FindMember(h) \/ Commit(h) \/ Answer(h) \/ Fail(h)
  \/ \E r \in nonces : Prune(r)
  \/ Tick

Spec == Init /\ [][Next]_vars

(***************************************************************************)
(* Properties                                                              *)
(***************************************************************************)
(* Rows refer to rows: a ticket is for an account of the address proved.   *)
TypeOK ==
  /\ \A r \in nonces : r.address \in Addresses /\ r.nonce \in Nonces /\ r.expires \in 1 .. MaxTime
  /\ \A t \in tickets : [address |-> t.address, id |-> t.member] \in members

(* One signature buys one ticket, presented twice or by two requests at    *)
(* once, with failed transactions in between.                              *)
SignatureBuysOne ==
  \A t, u \in tickets : t.signature = u.signature => t = u

(* The wallet is the account: concurrent first logins make one.            *)
OneAccountPerWallet == \A m, n \in members : m.address = n.address => m = n

(* A nonce is spent only with a ticket to show for it: a login that fails  *)
(* partway spends nothing.                                                 *)
SpentForATicket ==
  \A r \in nonces : \E t \in tickets : t.address = r.address /\ t.signature.nonce = r.nonce

(* A wallet's account gets tickets only for what it signed for this pool,  *)
(* chain and purpose.                                                      *)
SignedForThisPool ==
  \A t \in tickets : t.address \in [wallet : Wallets, ours : {TRUE}] => t.signature.ours

(* A signature for another pool, chain or purpose buys nothing.            *)
ElsewhereBuysNothing == \A t \in tickets : t.signature.ours

=============================================================================

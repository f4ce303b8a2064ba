----------------------------- MODULE MCPoolApi ------------------------------
(* The Pool API's two ways in, for TLC: signed requests (RequestAuth), and *)
(* wallet logins (WalletLogin).  Each shape runs one of them; the other    *)
(* one's variables stay as they began.                                     *)
EXTENDS RequestAuth

CONSTANTS Wallets, Nonces, MaxLifetime, LoginMaxTime, MaxPrunes

VARIABLES nonces, members, tickets, login, prunes, shape

L == INSTANCE WalletLogin WITH handler <- login, MaxTime <- LoginMaxTime

(* Signed requests; one signature presented over and over; and two         *)
(* signatures of a wallet, with spent nonces deleted.                      *)
Shapes ==
  { [name |-> "request", nonces |-> {}, time |-> MaxTime, faults |-> 1, prunes |-> 0],
    [name |-> "login", nonces |-> {CHOOSE n \in Nonces : TRUE}, time |-> LoginMaxTime,
     faults |-> 2, prunes |-> 0],
    [name |-> "login", nonces |-> Nonces, time |-> 1, faults |-> 1, prunes |-> MaxPrunes] }

Within(s) ==
  /\ now <= s.time /\ faults <= s.faults /\ prunes <= s.prunes
  /\ \A h \in Handlers : login[h] # None =>
       /\ login[h].signature.nonce \in s.nonces
       /\ login[h].signature.expires <= s.time

requestVars == <<credential, notAfter, replay, audit, handler, taken>>
loginVars == <<nonces, members, tickets, login, prunes>>

MCInit ==
  /\ Init /\ shape \in Shapes
  /\ nonces = {} /\ members = {} /\ tickets = {} /\ prunes = 0
  /\ login = [h \in Handlers |-> None]

MCNext ==
  /\ UNCHANGED shape
  /\ \/ shape.name = "request" /\ Next /\ UNCHANGED loginVars
     \/ shape.name = "login" /\ L!Next /\ UNCHANGED requestVars
  /\ Within(shape)'

MCSpec == MCInit /\ [][MCNext]_<<vars, loginVars, shape>>

(* Rows refer to rows: see WalletLogin's TypeOK.                           *)
LoginTypeOK == L!TypeOK

(* One signature buys one ticket, presented twice or by two requests at    *)
(* once, with failed transactions in between, as long as no spent nonce    *)
(* has been deleted; and a login that fails partway spends no nonce        *)
(* (account.rs issue_ticket).                                              *)
NonceBuysOneTicket == (prunes = 0 => L!SignatureBuysOne) /\ L!SpentForATicket

(* Concurrent first logins of a wallet make one account.                   *)
OneAccountPerWallet == L!OneAccountPerWallet

(* A wallet's account gets tickets only for what it signed for this pool.  *)
SignedForThisPool == L!SignedForThisPool
=============================================================================

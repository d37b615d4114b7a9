---------------------------- MODULE VaultProofs ----------------------------
(***************************************************************************)
(* That Vault implements LoginLedger, and that what it stores can be read, *)
(* for every set of accounts and requests and every lifetime.              *)
(***************************************************************************)
EXTENDS Vault, TLAPS

-----------------------------------------------------------------------------
(* The types of what signing in and adding a note use. *)

Messages == [account : Accounts, expires : Nat]
Requests == [at : {"free", "consume", "signature", "accept", "refuse"},
             nonce : Nonces \cup {0}, token : Nat]
SignIns == [at : {"off", "challenge", "sign", "post", "verify"},
            account : Accounts \cup {None}, nonce : Nonces \cup {0}, slot : Slots \cup {None}]
Blobs == [id : Nat, key : Accounts \cup {None}, aad : Accounts]
Apps == [token : Tokens, address : Accounts]
Addings == [at : {"key", "sent", "body", "stored"}, session : Apps, promise : Nat,
            blob : Blobs \cup {None}, owner : Accounts \cup {None}]

LoginTypes ==
  /\ now \in Nat /\ chosen \in Accounts /\ signed \subseteq Nonces
  /\ message \in [Nonces -> Messages \cup {None}]
  /\ nonces \in [Nonces -> Nat \cup {None}]
  /\ sessions \in [Tokens -> [address : Accounts, expires : Nat] \cup {None}]
  /\ granted \in Seq(Nonces)
  /\ slot \in [Slots -> Requests]
  /\ signing \in SignIns

Keys == [account : Accounts \cup {None}, cached : Nat]
Derivation == [of : Tokens, at : {"asked", "ready", "failed"}]

NoteTypes ==
  /\ app \in Apps \cup {None}
  /\ adding \in Addings \cup {None}
  /\ notes \in [Accounts -> Seq(Blobs)]
  /\ count \in [notes : Nat, resends : Nat, restarts : Nat]

-----------------------------------------------------------------------------
(* The life of a nonce: each is in one place at most, and has a message.    *)

Grants == {granted[i] : i \in DOMAIN granted}

Placed ==
  /\ \A n \in Nonces : nonces[n] # None => message[n] # None /\ n \notin Grants
  /\ \A n \in Grants : message[n] # None
  /\ \A h \in Slots : slot[h].at = "signature" =>
       /\ slot[h].nonce \notin Grants /\ nonces[slot[h].nonce] = None
       /\ \A k \in Slots : slot[k].at = "signature" /\ slot[k].nonce = slot[h].nonce => k = h

(* What a request, a session and the tab know of a nonce and its account.   *)

Asked(n) == n \in Nonces /\ message[n] # None
Owner(t) == message[granted[t]].account
Issued(t) == t \in Tokens /\ t \in DOMAIN granted

RequestsKnown ==
  /\ \A n \in signed : Asked(n)
  /\ \A h \in Slots :
       /\ slot[h].at # "free" => Asked(slot[h].nonce)
       /\ slot[h].at = "accept" =>
            Issued(slot[h].token) /\ granted[slot[h].token] = slot[h].nonce

SignInKnown ==
  /\ signing.at = "challenge" => signing.account \in Accounts
  /\ signing.at \in {"sign", "post", "verify"} =>
       Asked(signing.nonce) /\ message[signing.nonce].account = signing.account
  /\ signing.at = "verify" =>
       /\ signing.slot \in Slots
       /\ slot[signing.slot].at # "free" /\ slot[signing.slot].nonce = signing.nonce

SessionsKnown ==
  \A t \in Tokens : sessions[t] # None => Issued(t) /\ sessions[t].address = Owner(t)

LoginInv == LoginTypes /\ Placed /\ RequestsKnown /\ SignInKnown /\ SessionsKnown

(* A session in the tab is its account's, and so is the key made with it.   *)

Matches(s) == Issued(s.token) /\ s.address = Owner(s.token) /\ keys[s.token].account = s.address

KeySessions ==
  /\ keys \in [Tokens -> Keys]
  /\ derived \in Seq(Derivation)
  /\ \A t \in Tokens : keys[t].cached # 0 =>
       keys[t].cached \in DOMAIN derived /\ derived[keys[t].cached].of = t

AddingKnown ==
  adding # None =>
    /\ Matches(adding.session)
    /\ adding.promise \in DOMAIN derived /\ derived[adding.promise].of = adding.session.token
    /\ adding.at # "key" =>
         /\ adding.blob \in Blobs
         /\ adding.blob.key = adding.session.address /\ adding.blob.aad = adding.session.address
    /\ adding.at = "body" => adding.owner = adding.session.address

NoteInv ==
  NoteTypes /\ KeySessions /\ (app # None => Matches(app)) /\ AddingKnown /\ StoredReadable

-----------------------------------------------------------------------------
(* Signing in: LoginInv is inductive. *)

LEMMA BoundsNat ==
  /\ NonceTtl \in Nat /\ SessionTtl \in Nat /\ MaxNow \in Nat /\ MaxNonces \in Nat
  /\ MaxSessions \in Nat /\ MaxNotes \in Nat /\ MaxDerivations \in Nat
  BY VaultAssumption

LEMMA LoginInit == Init => LoginInv
  BY BoundsNat DEF Init, LoginInv, LoginTypes, Placed, RequestsKnown, SignInKnown, SessionsKnown,
     Grants, Free, Off, Requests, SignIns, Nonces, Tokens

login == <<now, message, nonces, sessions, granted, slot, signing, signed, chosen>>

LEMMA LoginStutter == LoginInv /\ UNCHANGED login => LoginInv'
  BY DEF login, LoginInv, LoginTypes, Placed, RequestsKnown, SignInKnown, SessionsKnown,
     Grants, Asked, Issued, Owner

\* Steps of signIn that no store and no request sees.
LEMMA SignInSteps ==
  LoginInv /\ (SignIn \/ Sign \/ SignInFails \/ AccountsChanged \/ Tick) => LoginInv'
<1> SUFFICES ASSUME LoginInv, SignIn \/ Sign \/ SignInFails \/ AccountsChanged \/ Tick
             PROVE  LoginInv'
  OBVIOUS
<1>1. UNCHANGED <<message, nonces, sessions, granted, slot>>
  BY DEF SignIn, Sign, SignInFails, AccountsChanged, Tick, stores, server
<1>2. Placed' /\ SessionsKnown'
  BY <1>1 DEF LoginInv, Placed, SessionsKnown, Grants, Issued, Owner
<1>3. now' \in Nat /\ chosen' \in Accounts /\ signed' \subseteq Nonces /\ signing' \in SignIns
  <2>1. CASE SignIn
    BY <2>1 DEF SignIn, LoginInv, LoginTypes, SignIns, Off, wallet
  <2>2. CASE Sign
    BY <2>2 DEF Sign, LoginInv, LoginTypes, SignIns, SignInKnown, Asked
  <2>3. CASE SignInFails
    BY <2>3 DEF SignInFails, LoginInv, LoginTypes, SignIns, Off
  <2>4. CASE AccountsChanged
    BY <2>4 DEF AccountsChanged, LoginInv, LoginTypes
  <2>5. CASE Tick
    BY <2>5 DEF Tick, LoginInv, LoginTypes, wallet
  <2> QED
    BY <2>1, <2>2, <2>3, <2>4, <2>5
<1>4. RequestsKnown' /\ SignInKnown'
  <2>1. CASE SignIn
    BY <1>1, <2>1 DEF SignIn, LoginInv, LoginTypes, SignInKnown, RequestsKnown, Asked, Issued, Off
  <2>2. CASE Sign
    BY <1>1, <2>2 DEF Sign, LoginInv, LoginTypes, SignIns, SignInKnown, RequestsKnown, Asked, Issued
  <2>3. CASE SignInFails
    BY <1>1, <2>3 DEF SignInFails, LoginInv, SignInKnown, RequestsKnown, Asked, Issued, Off
  <2>4. CASE AccountsChanged \/ Tick
    BY <1>1, <2>4 DEF AccountsChanged, Tick, wallet, LoginInv, SignInKnown, RequestsKnown,
       Asked, Issued
  <2> QED
    BY <2>1, <2>2, <2>3, <2>4
<1> QED
  BY <1>1, <1>2, <1>3, <1>4 DEF LoginInv, LoginTypes

LEMMA ChallengeStep == LoginInv /\ Challenge => LoginInv'
<1> SUFFICES ASSUME LoginInv, Challenge PROVE LoginInv'
  OBVIOUS
<1> DEFINE m == [account |-> signing.account, expires |-> now + NonceTtl]
<1>1. PICK n \in Nonces :
        /\ message[n] = None /\ message' = [message EXCEPT ![n] = m]
        /\ nonces' = [nonces EXCEPT ![n] = now + NonceTtl]
        /\ \/ signing' = [signing EXCEPT !.at = "sign", !.nonce = n]
           \/ signing' = Off
  BY DEF Challenge
<1>2. /\ signing.at = "challenge"
      /\ UNCHANGED <<now, sessions, granted, slot, chosen, signed>>
  BY DEF Challenge
<1>3. m \in Messages /\ m # None /\ m.account = signing.account /\ now + NonceTtl \in Nat
  BY <1>2, BoundsNat, NoneAssumption DEF LoginInv, LoginTypes, SignInKnown, Messages
<1> HIDE DEF m
<1>4. /\ signing' \in SignIns
      /\ \/ signing'.at = "off"
         \/ /\ signing'.at = "sign" /\ signing'.nonce = n
            /\ signing'.account = signing.account
  <2>1. signing \in SignIns
    BY DEF LoginInv, LoginTypes
  <2>2. CASE signing' = Off
    BY <2>2 DEF SignIns, Off
  <2>3. CASE signing' = [signing EXCEPT !.at = "sign", !.nonce = n]
    BY <2>1, <2>3 DEF SignIns
  <2> QED
    BY <1>1, <2>2, <2>3
<1>12. LoginTypes'
  BY <1>1, <1>2, <1>3, <1>4 DEF LoginInv, LoginTypes
<1>5. \A k \in Nonces : message[k] # None => message'[k] = message[k] /\ nonces'[k] = nonces[k]
  BY <1>1 DEF LoginInv, LoginTypes
<1>6. message'[n] = m
  BY <1>1 DEF LoginInv, LoginTypes
<1>7. n \notin Grants /\ Grants' = Grants
  BY <1>1, <1>2 DEF Grants, LoginInv, Placed
<1>8. Placed'
  BY <1>1, <1>2, <1>3, <1>5, <1>6, <1>7 DEF LoginInv, LoginTypes, Placed, RequestsKnown, Asked, Grants
<1>9. RequestsKnown'
  BY <1>1, <1>2, <1>3, <1>5 DEF LoginInv, RequestsKnown, Asked, Issued
<1>10. SignInKnown'
  BY <1>3, <1>4, <1>6 DEF SignInKnown, Asked
<1>11. SessionsKnown'
  BY <1>1, <1>2, <1>5 DEF LoginInv, SessionsKnown, Issued, Owner, Placed, Grants, LoginTypes
<1> QED
  BY <1>12, <1>8, <1>9, <1>10, <1>11 DEF LoginInv

\* A request changes place; nothing else does.
LEMMA RequestMoves ==
  ASSUME LoginInv, NEW h \in Slots, NEW r \in Requests,
         slot' = [slot EXCEPT ![h] = r],
         UNCHANGED <<now, message, sessions, granted, signed, chosen, nonces>>,
         signing' \in SignIns,
         r.at \in {"free", "consume", "refuse"},
         r.at # "free" => Asked(r.nonce),
         SignInKnown'
  PROVE  LoginInv'
<1>1. LoginTypes'
  BY DEF LoginInv, LoginTypes
<1>2. slot'[h] = r /\ \A k \in Slots \ {h} : slot'[k] = slot[k]
  BY DEF LoginInv, LoginTypes
<1>3. Placed'
  BY <1>2 DEF LoginInv, LoginTypes, Placed, Grants, RequestsKnown, Asked
<1>4. RequestsKnown'
  BY <1>2 DEF LoginInv, RequestsKnown, Asked, Issued
<1>5. SessionsKnown'
  BY DEF LoginInv, SessionsKnown, Issued, Owner
<1> QED
  BY <1>1, <1>3, <1>4, <1>5 DEF LoginInv

LEMMA PostVerifyStep ==
  ASSUME LoginInv, NEW h \in Slots, PostVerify(h) PROVE LoginInv'
<1> DEFINE r == [Free EXCEPT !.at = "consume", !.nonce = signing.nonce]
<1>1. signing \in SignIns /\ Asked(signing.nonce)
  BY DEF PostVerify, LoginInv, LoginTypes, SignInKnown
<1>2. r \in Requests /\ r.at = "consume" /\ r.nonce = signing.nonce
  BY <1>1 DEF Requests, Free, Asked
<1>3. slot' = [slot EXCEPT ![h] = r] /\ signing' = [signing EXCEPT !.at = "verify", !.slot = h]
      /\ signing.at = "post"
      /\ UNCHANGED <<now, message, sessions, granted, signed, chosen, nonces>>
  BY DEF PostVerify, stores
<1>4. /\ signing' \in SignIns /\ signing'.at = "verify" /\ signing'.nonce = signing.nonce
      /\ signing'.account = signing.account /\ signing'.slot = h
  BY <1>1, <1>3 DEF SignIns
<1>5. slot'[h] = r
  BY <1>3 DEF LoginInv, LoginTypes
<1> HIDE DEF r
<1>6. SignInKnown'
  BY <1>1, <1>2, <1>3, <1>4, <1>5 DEF LoginInv, SignInKnown, Asked
<1> QED
  BY <1>1, <1>2, <1>3, <1>4, <1>6, RequestMoves

LEMMA ResendStep ==
  ASSUME LoginInv, NEW h \in Slots, Resend(h) PROVE LoginInv'
<1>1. PICK n \in signed : slot' = [slot EXCEPT ![h] = [Free EXCEPT !.at = "consume", !.nonce = n]]
  BY DEF Resend
<1> DEFINE r == [Free EXCEPT !.at = "consume", !.nonce = n]
<1>2. Asked(n)
  BY DEF LoginInv, RequestsKnown
<1>3. r \in Requests /\ r.at = "consume" /\ r.nonce = n
  BY <1>2 DEF Requests, Free, Asked
<1>4. slot[h] = Free
      /\ UNCHANGED <<now, message, sessions, granted, signed, chosen, nonces, signing>>
  BY DEF Resend, stores, wallet
<1>5. slot' = [slot EXCEPT ![h] = r]
  BY <1>1
<1> HIDE DEF r
<1>6. SignInKnown'
  BY <1>4, <1>5 DEF LoginInv, LoginTypes, SignInKnown, Asked, Free
<1>7. signing' \in SignIns
  BY <1>4 DEF LoginInv, LoginTypes
<1> QED
  BY <1>2, <1>3, <1>4, <1>5, <1>6, <1>7, RequestMoves

\* A request that answers; a tab that waits for it is done with it.
LEMMA AnswerStep ==
  ASSUME LoginInv, NEW h \in Slots, Refused(h) \/ Accepted(h) PROVE LoginInv'
<1>1. Free \in Requests /\ Free.at = "free" /\ Off \in SignIns /\ Off.at = "off"
  BY DEF Requests, Free, SignIns, Off
<1>2. /\ slot' = [slot EXCEPT ![h] = Free]
      /\ signing' = IF Waits(h) THEN Off ELSE signing
      /\ UNCHANGED <<now, message, sessions, granted, signed, chosen, nonces>>
  BY DEF Refused, Accepted, stores
<1>3. signing' \in SignIns
  BY <1>1, <1>2 DEF LoginInv, LoginTypes
<1>4. SignInKnown'
  BY <1>1, <1>2 DEF LoginInv, LoginTypes, SignInKnown, Asked, Waits
<1> QED
  BY <1>1, <1>2, <1>3, <1>4, RequestMoves

\* What the new place of a request is, once EXCEPT is worked out.
LEMMA MovedTo ==
  ASSUME LoginInv, NEW h \in Slots, NEW place \in {"signature", "refuse"}, To(h, place)
  PROVE  \E r \in Requests : slot' = [slot EXCEPT ![h] = r] /\ r.at = place
                             /\ r.nonce = slot[h].nonce
<1> DEFINE r == [slot[h] EXCEPT !.at = place]
<1>1. slot[h] \in Requests
  BY DEF LoginInv, LoginTypes
<1>2. r \in Requests /\ r.at = place /\ r.nonce = slot[h].nonce
  BY <1>1 DEF Requests
<1>3. slot' = [slot EXCEPT ![h] = r]
  BY DEF To
<1> HIDE DEF r
<1> QED
  BY <1>2, <1>3

LEMMA UnverifiedStep ==
  ASSUME LoginInv, NEW h \in Slots, Unverified(h) PROVE LoginInv'
<1>1. /\ slot[h].at = "signature" /\ To(h, "refuse")
      /\ UNCHANGED <<now, message, sessions, granted, signed, chosen, nonces, signing>>
  BY DEF Unverified, stores, wallet
<1>2. PICK r \in Requests : /\ slot' = [slot EXCEPT ![h] = r] /\ r.at = "refuse"
                            /\ r.nonce = slot[h].nonce
  BY <1>1, MovedTo
<1>3. SignInKnown'
  BY <1>1, <1>2 DEF LoginInv, LoginTypes, SignInKnown, Asked
<1>4. Asked(r.nonce) /\ signing' \in SignIns
  BY <1>1, <1>2 DEF LoginInv, LoginTypes, RequestsKnown
<1> QED
  BY <1>1, <1>2, <1>3, <1>4, RequestMoves

\* A nonce that is consumed is gone, whatever becomes of its request.
LEMMA ConsumeStep ==
  ASSUME LoginInv, NEW h \in Slots, Consume(h) PROVE LoginInv'
<1> DEFINE n == slot[h].nonce
<1>1. /\ slot[h].at = "consume" /\ nonces' = [nonces EXCEPT ![n] = None]
      /\ UNCHANGED <<now, message, sessions, granted, signed, chosen, signing>>
  BY DEF Consume, Consumed, wallet
<1>2. /\ Asked(n)
      /\ nonces' \in [Nonces -> Nat \cup {None}] /\ nonces'[n] = None
      /\ \A k \in Nonces \ {n} : nonces'[k] = nonces[k]
  BY <1>1 DEF LoginInv, LoginTypes, RequestsKnown, Asked
<1>3. CASE UNCHANGED slot
  BY <1>1, <1>2, <1>3 DEF LoginInv, LoginTypes, Placed, RequestsKnown, SignInKnown,
     SessionsKnown, Grants, Asked, Issued, Owner
<1>4. ASSUME NEW place \in {"signature", "refuse"}, To(h, place),
             place = "signature" => nonces[n] # None
      PROVE  LoginInv'
  <2>1. PICK r \in Requests : /\ slot' = [slot EXCEPT ![h] = r] /\ r.at = place
                              /\ r.nonce = n
    BY <1>4, MovedTo
  <2> HIDE DEF n
  <2>2. slot' \in [Slots -> Requests] /\ slot'[h] = r /\ \A k \in Slots \ {h} : slot'[k] = slot[k]
    BY <2>1 DEF LoginInv, LoginTypes
  <2>3. LoginTypes'
    BY <1>1, <1>2, <2>2 DEF LoginInv, LoginTypes
  <2>4. Placed'
    BY <1>1, <1>2, <1>4, <2>1, <2>2 DEF LoginInv, Placed, Grants, Asked, RequestsKnown
  <2>5. RequestsKnown'
    BY <1>1, <1>2, <2>1, <2>2 DEF LoginInv, RequestsKnown, Asked, Issued
  <2>6. SignInKnown'
    BY <1>1, <1>2, <2>1, <2>2 DEF LoginInv, SignInKnown, Asked, n
  <2>7. SessionsKnown'
    BY <1>1 DEF LoginInv, SessionsKnown, Issued, Owner
  <2> QED
    BY <2>3, <2>4, <2>5, <2>6, <2>7 DEF LoginInv
<1>5. \/ UNCHANGED slot \/ To(h, "refuse") \/ (To(h, "signature") /\ nonces[n] # None)
  BY DEF Consume, Consumable
<1> QED
  BY <1>3, <1>4, <1>5

\* What Issue leaves behind, once EXCEPT and Append are worked out.
LEMMA IssueIs ==
  ASSUME LoginInv, NEW h \in Slots, Issue(h)
  PROVE  LET n == slot[h].nonce
             t == Len(granted) + 1
         IN /\ slot[h].at = "signature" /\ Asked(n) /\ t \in Tokens /\ t \notin DOMAIN granted
            /\ granted' \in Seq(Nonces) /\ DOMAIN granted' = DOMAIN granted \cup {t}
            /\ granted'[t] = n /\ \A i \in DOMAIN granted : granted'[i] = granted[i]
            /\ sessions' = [sessions EXCEPT ![t] =
                 [address |-> message[n].account, expires |-> now + SessionTtl]]
            /\ \E r \in Requests : /\ slot' = [slot EXCEPT ![h] = r]
                                   /\ r.at = "accept" /\ r.nonce = n /\ r.token = t
            /\ UNCHANGED <<now, message, nonces, signed, chosen, signing>>
<1> DEFINE n == slot[h].nonce
           t == Len(granted) + 1
           r == [slot[h] EXCEPT !.at = "accept", !.token = t]
<1>1. /\ slot[h].at = "signature" /\ t \in Tokens
      /\ granted' = Append(granted, n)
      /\ sessions' = [sessions EXCEPT ![t] =
           [address |-> message[n].account, expires |-> now + SessionTtl]]
      /\ UNCHANGED <<now, message, nonces, signed, chosen, signing>>
  BY DEF Issue, wallet
<1>2. slot[h] \in Requests /\ granted \in Seq(Nonces) /\ Asked(n)
  BY <1>1 DEF LoginInv, LoginTypes, RequestsKnown
<1>3. t \in Nat
  BY <1>2
<1>4. r \in Requests /\ r.at = "accept" /\ r.nonce = n /\ r.token = t
  BY <1>2, <1>3 DEF Requests
<1>5. slot' = [slot EXCEPT ![h] = r]
  BY DEF Issue
<1>6. /\ granted' \in Seq(Nonces) /\ DOMAIN granted' = DOMAIN granted \cup {t}
      /\ granted'[t] = n /\ \A i \in DOMAIN granted : granted'[i] = granted[i]
      /\ t \notin DOMAIN granted
  BY <1>1, <1>2 DEF Asked
<1> HIDE DEF r
<1> QED
  BY <1>1, <1>2, <1>4, <1>5, <1>6

LEMMA IssueStep ==
  ASSUME LoginInv, NEW h \in Slots, Issue(h) PROVE LoginInv'
<1> DEFINE n == slot[h].nonce
           t == Len(granted) + 1
<1>1. /\ slot[h].at = "signature" /\ Asked(n) /\ t \in Tokens /\ t \notin DOMAIN granted
      /\ granted' \in Seq(Nonces) /\ DOMAIN granted' = DOMAIN granted \cup {t}
      /\ granted'[t] = n /\ \A i \in DOMAIN granted : granted'[i] = granted[i]
      /\ sessions' = [sessions EXCEPT ![t] =
           [address |-> message[n].account, expires |-> now + SessionTtl]]
      /\ UNCHANGED <<now, message, nonces, signed, chosen, signing>>
  BY IssueIs
<1>2. PICK r \in Requests : /\ slot' = [slot EXCEPT ![h] = r]
                            /\ r.at = "accept" /\ r.nonce = n /\ r.token = t
  BY IssueIs
<1>3. message[n].account \in Accounts /\ now + SessionTtl \in Nat
  BY <1>1, BoundsNat DEF LoginInv, LoginTypes, Asked, Messages
<1> HIDE DEF t
<1>4. slot' \in [Slots -> Requests] /\ slot'[h] = r /\ \A k \in Slots \ {h} : slot'[k] = slot[k]
  BY <1>2 DEF LoginInv, LoginTypes
<1>5. LoginTypes'
  BY <1>1, <1>3, <1>4 DEF LoginInv, LoginTypes
<1>6. Grants' = Grants \cup {n}
  BY <1>1 DEF Grants
<1>7. Placed'
  BY <1>1, <1>2, <1>4, <1>6 DEF LoginInv, Placed, Asked
<1>8. RequestsKnown'
  BY <1>1, <1>2, <1>4 DEF LoginInv, RequestsKnown, Asked, Issued
<1>9. SignInKnown'
  BY <1>1, <1>2, <1>4 DEF LoginInv, SignInKnown, Asked
<1>10. SessionsKnown'
  <2>1. sessions'[t].address = message[n].account
        /\ \A s \in Tokens \ {t} : sessions'[s] = sessions[s]
    BY <1>1 DEF LoginInv, LoginTypes
  <2> QED
    BY <1>1, <2>1 DEF LoginInv, SessionsKnown, Issued, Owner
<1> QED
  BY <1>5, <1>7, <1>8, <1>9, <1>10 DEF LoginInv

LEMMA RevokeStep ==
  ASSUME LoginInv, NEW t \in Tokens, Revoke(t) PROVE LoginInv'
<1>1. /\ sessions' = [sessions EXCEPT ![t] = None]
      /\ UNCHANGED <<now, message, nonces, granted, slot, signing, signed, chosen>>
  BY DEF Revoke, server, wallet
<1>2. SessionsKnown' /\ LoginTypes'
  BY <1>1 DEF LoginInv, LoginTypes, SessionsKnown, Issued, Owner
<1> QED
  BY <1>1, <1>2 DEF LoginInv, Placed, RequestsKnown, SignInKnown, Grants, Asked, Issued

LEMMA RestartStep == LoginInv /\ Restart => LoginInv'
<1> SUFFICES ASSUME LoginInv, Restart PROVE LoginInv'
  OBVIOUS
<1>1. /\ slot' = [h \in Slots |-> Free]
      /\ signing' = IF signing.at = "verify" THEN Off ELSE signing
      /\ \/ nonces' = [n \in Nonces |-> None] /\ sessions' = [t \in Tokens |-> None]
         \/ UNCHANGED <<nonces, sessions>>
      /\ UNCHANGED <<now, message, granted, signed, chosen>>
  BY DEF Restart
<1>2. Free \in Requests /\ Free.at = "free" /\ Off \in SignIns /\ Off.at = "off"
  BY DEF Requests, Free, SignIns, Off
<1>3. LoginTypes'
  BY <1>1, <1>2 DEF LoginInv, LoginTypes
<1>4. Placed' /\ RequestsKnown' /\ SessionsKnown'
  BY <1>1, <1>2 DEF LoginInv, Placed, RequestsKnown, SessionsKnown, Grants, Asked, Issued, Owner
<1>5. SignInKnown'
  BY <1>1, <1>2 DEF LoginInv, LoginTypes, SignInKnown, SignIns, Asked
<1> QED
  BY <1>3, <1>4, <1>5 DEF LoginInv

LEMMA LoginStep == LoginInv /\ [Next]_vars => LoginInv'
<1> SUFFICES ASSUME LoginInv, [Next]_vars PROVE LoginInv'
  OBVIOUS
<1>1. CASE SignIn \/ Sign \/ SignInFails \/ AccountsChanged \/ Tick
  BY <1>1, SignInSteps
<1>2. CASE Challenge
  BY <1>2, ChallengeStep
<1>3. ASSUME NEW h \in Slots,
             \/ PostVerify(h) \/ Resend(h) \/ Consume(h) \/ Issue(h)
             \/ Unverified(h) \/ Refused(h) \/ Accepted(h)
      PROVE  LoginInv'
  BY <1>3, PostVerifyStep, ResendStep, ConsumeStep, IssueStep, UnverifiedStep, AnswerStep
<1>4. ASSUME NEW t \in Tokens, Revoke(t) PROVE LoginInv'
  BY <1>4, RevokeStep
<1>5. CASE Restart
  BY <1>5, RestartStep
<1>6. ASSUME \/ SignOut \/ \E d \in DOMAIN derived : Derived(d) \/ DeriveFails(d)
             \/ AddNote \/ Encrypted \/ PostNote \/ StoreNote \/ Added \/ AddFails
             \/ GetNotes \/ Loaded \/ LoadFails
             \/ DecryptNote \/ Decrypted \/ DecryptFails \/ UNCHANGED vars
      PROVE  UNCHANGED login
  BY <1>6 DEF SignOut, Derived, DeriveFails, AddNote, Encrypted, PostNote, StoreNote, Added,
     AddFails, GetNotes, Loaded, LoadFails, DecryptNote, Decrypted, DecryptFails, vars,
     stores, server, wallet, login
<1> QED
  BY <1>1, <1>2, <1>3, <1>4, <1>5, <1>6, LoginStutter DEF Next

LEMMA LoginCorrect == Spec => []LoginInv
  BY LoginInit, LoginStep, PTL DEF Spec

-----------------------------------------------------------------------------
(* Signing in implements the ledger. *)

\* No request gets a nonce to check that had none.
Unclaims == \A k \in Slots : slot'[k].at = "signature" => slot'[k] = slot[k]

LEMMA LeavesSignature ==
  ASSUME LoginInv, NEW h \in Slots, To(h, "refuse") \/ UNCHANGED slot PROVE Unclaims
<1>1. CASE To(h, "refuse")
  <2>1. PICK r \in Requests : slot' = [slot EXCEPT ![h] = r] /\ r.at = "refuse"
    BY <1>1, MovedTo
  <2> QED
    BY <2>1 DEF LoginInv, LoginTypes, Unclaims
<1> QED
  BY <1>1 DEF Unclaims

LEMMA TakesSlot ==
  ASSUME LoginInv, NEW h \in Slots, PostVerify(h) \/ Resend(h) PROVE Unclaims
<1>1. PICK n : slot' = [slot EXCEPT ![h] = [Free EXCEPT !.at = "consume", !.nonce = n]]
  BY DEF PostVerify, Resend
<1> DEFINE r == [Free EXCEPT !.at = "consume", !.nonce = n]
<1>2. r.at = "consume"
  BY DEF Free
<1>3. slot' = [slot EXCEPT ![h] = r]
  BY <1>1
<1> HIDE DEF r
<1> QED
  BY <1>2, <1>3 DEF LoginInv, LoginTypes, Unclaims

\* Every step offers, claims or grants one message, forgets some, or is
\* invisible in the ledger.
LEMMA LedgerRefines == LoginInv /\ LoginInv' /\ [Next]_vars => [Ledger!Next]_(Ledger!vars)
<1> SUFFICES ASSUME LoginInv, LoginInv', [Next]_vars PROVE [Ledger!Next]_(Ledger!vars)
  OBVIOUS
<1> DEFINE Open == {n \in Nonces : nonces[n] # None}
           Claimed == {slot[h].nonce : h \in {k \in Slots : slot[k].at = "signature"}}
<1>1. CASE Challenge
  <2>1. PICK n \in Nonces : message[n] = None /\ nonces' = [nonces EXCEPT ![n] = now + NonceTtl]
    BY <1>1 DEF Challenge
  <2>2. Claimed' = Claimed /\ granted' = granted
    BY <1>1 DEF Challenge
  <2>3. n \notin Open /\ n \notin Grants
    BY <2>1 DEF LoginInv, Placed
  <2>4. n \notin Claimed
    BY <2>1 DEF LoginInv, RequestsKnown, Asked
  <2>5. Open' = Open \/ Open' = Open \cup {n}
    <3>1. \A k \in Nonces : k # n => nonces'[k] = nonces[k]
      BY <2>1 DEF LoginInv, LoginTypes
    <3>2. CASE nonces'[n] = None
      BY <2>3, <3>1, <3>2
    <3>3. CASE nonces'[n] # None
      BY <3>1, <3>3
    <3> QED
      BY <3>2, <3>3
  <2>6. n \notin Open \cup Ledger!Past
    BY <2>3, <2>4 DEF Grants, Ledger!Past
  <2> QED
    BY <2>2, <2>5, <2>6 DEF Ledger!Next, Ledger!Offer, Ledger!vars
<1>2. ASSUME NEW h \in Slots, Consume(h) PROVE [Ledger!Next]_(Ledger!vars)
  <2> DEFINE n == slot[h].nonce
  <2>1. n \in Nonces /\ slot[h].at = "consume" /\ granted' = granted
    BY <1>2 DEF Consume, LoginInv, RequestsKnown, Asked
  <2>2. Open' = Open \ {n}
    BY <1>2, <2>1 DEF Consume, Consumed, LoginInv, LoginTypes
  <2>3. CASE To(h, "refuse") \/ UNCHANGED slot
    <3>1. Claimed' \subseteq Claimed
      BY <2>3, LeavesSignature DEF Unclaims
    <3> QED
      BY <2>1, <2>2, <3>1 DEF Ledger!Next, Ledger!Forget
  <2>4. CASE To(h, "signature") /\ nonces[n] # None
    <3>1. Claimed' = Claimed \cup {n}
      <4>1. slot[h] \in Requests
        BY DEF LoginInv, LoginTypes
      <4>2. PICK r \in Requests : slot' = [slot EXCEPT ![h] = r] /\ r.at = "signature" /\ r.nonce = n
        BY <2>4, MovedTo
      <4> QED
        BY <2>1, <4>2 DEF LoginInv, LoginTypes
    <3>2. n \in Open
      BY <2>1, <2>4
    <3> QED
      BY <2>1, <2>2, <3>1, <3>2 DEF Ledger!Next, Ledger!Claim
  <2>5. \/ UNCHANGED slot \/ To(h, "refuse") \/ (To(h, "signature") /\ nonces[n] # None)
    BY <1>2 DEF Consume, Consumable
  <2> QED
    BY <2>3, <2>4, <2>5
<1>3. ASSUME NEW h \in Slots, Issue(h) PROVE [Ledger!Next]_(Ledger!vars)
  <2> DEFINE n == slot[h].nonce
  <2>1. slot[h].at = "signature" /\ n \in Nonces /\ granted' = Append(granted, n)
        /\ nonces' = nonces
    BY <1>3, IssueIs DEF Issue, Asked
  <2>2. PICK r \in Requests : slot' = [slot EXCEPT ![h] = r] /\ r.at = "accept" /\ r.nonce = n
    BY <1>3, IssueIs
  <2>3. \A k \in Slots : slot'[k] = IF k = h THEN r ELSE slot[k]
    BY <2>2 DEF LoginInv, LoginTypes
  <2>4. Claimed' = Claimed \ {n}
    BY <2>1, <2>2, <2>3 DEF LoginInv, Placed
  <2>5. n \in Claimed
    BY <2>1
  <2> QED
    BY <2>1, <2>4, <2>5 DEF Ledger!Next, Ledger!Grant
<1>4. ASSUME NEW h \in Slots,
             PostVerify(h) \/ Resend(h) \/ Unverified(h) \/ Refused(h) \/ Accepted(h)
      PROVE  Ledger!Next
  <2>1. nonces' = nonces /\ granted' = granted
    BY <1>4 DEF PostVerify, Resend, Unverified, Refused, Accepted, stores
  <2>2. Unclaims
    <3>1. CASE PostVerify(h) \/ Resend(h)
      BY <3>1, TakesSlot
    <3>2. CASE Unverified(h)
      BY <3>2, LeavesSignature DEF Unverified
    <3>3. CASE Refused(h) \/ Accepted(h)
      BY <3>3 DEF Refused, Accepted, Unclaims, LoginInv, LoginTypes, Free
    <3> QED
      BY <1>4, <3>1, <3>2, <3>3
  <2>3. Claimed' \subseteq Claimed
    BY <2>2 DEF Unclaims
  <2> QED
    BY <2>1, <2>3 DEF Ledger!Next, Ledger!Forget
<1>5. CASE Restart
  <2>1. Claimed' = {} /\ Open' \subseteq Open /\ granted' = granted
    BY <1>5 DEF Restart, Free
  <2> QED
    BY <2>1 DEF Ledger!Next, Ledger!Forget
<1>6. ASSUME \/ SignIn \/ Sign \/ SignInFails \/ SignOut \/ AccountsChanged \/ Tick
             \/ \E t \in Tokens : Revoke(t)
             \/ \E d \in DOMAIN derived : Derived(d) \/ DeriveFails(d)
             \/ AddNote \/ Encrypted \/ PostNote \/ StoreNote \/ Added \/ AddFails
             \/ GetNotes \/ Loaded \/ LoadFails
             \/ DecryptNote \/ Decrypted \/ DecryptFails \/ UNCHANGED vars
      PROVE  UNCHANGED <<nonces, slot, granted>>
  BY <1>6 DEF SignIn, Sign, SignInFails, SignOut, AccountsChanged, Tick, Revoke, Derived,
     DeriveFails, AddNote, Encrypted, PostNote, StoreNote, Added, AddFails, GetNotes, Loaded,
     LoadFails, DecryptNote, Decrypted, DecryptFails, vars, stores, server
<1> QED
  BY <1>1, <1>2, <1>3, <1>4, <1>5, <1>6 DEF Next, Ledger!vars

\* Sign-in, over either backend, with requests repeated, answers lost and the
\* server restarted, implements the ledger that the nonce store promises.
THEOREM ImplementsLedger == Spec => LedgerSpec
<1>1. Init => Ledger!Init
  BY DEF Init, Ledger!Init, Free
<1> QED
  BY <1>1, LedgerRefines, LoginCorrect, PTL DEF Spec, LedgerSpec, Ledger!Spec

-----------------------------------------------------------------------------
(* Notes: with LoginInv, NoteInv is inductive. *)

LEMMA NoteInit == Init => NoteInv
<1> SUFFICES ASSUME Init PROVE NoteInv
  OBVIOUS
<1>1. keys = [t \in Tokens |-> NoKey] /\ derived = <<>> /\ NoKey \in Keys /\ NoKey.cached = 0
  BY DEF Init, NoKey, Keys
<1>2. KeySessions
  BY <1>1 DEF KeySessions
<1>3. NoteTypes /\ StoredReadable
  BY DEF Init, NoteTypes, StoredReadable
<1> QED
  BY <1>2, <1>3 DEF NoteInv, Init, AddingKnown

\* A message stays with its nonce, and a token with the nonce it was given for.
KeepsOwners == \A t \in Tokens : Issued(t) => Issued(t)' /\ Owner(t)' = Owner(t)

LEMMA OwnersKept == LoginInv /\ [Next]_vars => KeepsOwners
<1> SUFFICES ASSUME LoginInv, [Next]_vars PROVE KeepsOwners
  OBVIOUS
<1>1. CASE Challenge
  <2>1. granted' = granted /\ \E n \in Nonces : \E m : message[n] = None /\ message' = [message EXCEPT ![n] = m]
    BY <1>1 DEF Challenge
  <2>2. \A k \in Nonces : message[k] # None => message'[k] = message[k]
    BY <2>1 DEF LoginInv, LoginTypes
  <2>3. \A t \in Tokens : Issued(t) => granted[t] \in Nonces /\ message[granted[t]] # None
    BY DEF LoginInv, LoginTypes, Placed, Grants, Issued
  <2> QED
    BY <2>1, <2>2, <2>3 DEF KeepsOwners, Issued, Owner
<1>2. ASSUME NEW h \in Slots, Issue(h) PROVE KeepsOwners
  BY <1>2, IssueIs DEF KeepsOwners, Issued, Owner
<1>3. ASSUME \/ SignIn \/ Sign \/ SignInFails \/ SignOut \/ AccountsChanged \/ Tick
             \/ \E h \in Slots : \/ PostVerify(h) \/ Resend(h) \/ Consume(h)
                                 \/ Unverified(h) \/ Refused(h) \/ Accepted(h)
             \/ \E t \in Tokens : Revoke(t)
             \/ \E d \in DOMAIN derived : Derived(d) \/ DeriveFails(d)
             \/ AddNote \/ Encrypted \/ PostNote \/ StoreNote \/ Added \/ AddFails
             \/ GetNotes \/ Loaded \/ LoadFails
             \/ DecryptNote \/ Decrypted \/ DecryptFails
             \/ Restart \/ UNCHANGED vars
      PROVE  UNCHANGED <<message, granted>>
  BY <1>3 DEF SignIn, Sign, SignInFails, SignOut, AccountsChanged, Tick, PostVerify, Resend,
     Consume, Unverified, Refused, Accepted, Revoke, Derived, DeriveFails, AddNote, Encrypted,
     PostNote, StoreNote, Added, AddFails, GetNotes, Loaded, LoadFails, DecryptNote, Decrypted,
     DecryptFails, Restart, vars, stores, server
<1> QED
  BY <1>1, <1>2, <1>3 DEF Next, KeepsOwners, Issued, Owner

\* A key session keeps its account, a derivation its key session.
KeepsAccounts == \A t \in Tokens : keys'[t].account = keys[t].account
KeepsDerived == \A d \in DOMAIN derived : d \in DOMAIN derived' /\ derived'[d].of = derived[d].of
KeepsMatches == \A s \in Apps : Matches(s) => Matches(s)'

LEMMA MatchesKept == KeepsOwners /\ KeepsAccounts => KeepsMatches
  BY DEF KeepsOwners, KeepsAccounts, KeepsMatches, Matches, Apps

\* Steps that begin nothing and store nothing.
LEMMA NoteFrame ==
  ASSUME NoteInv, KeySessions', KeepsMatches, KeepsDerived, notes' = notes,
         count' \in [notes : Nat, resends : Nat, restarts : Nat],
         adding' \in {adding, None},
         app' \in {app, None} \/ (app' \in Apps /\ Matches(app)')
  PROVE  NoteInv'
<1>1. NoteTypes' /\ StoredReadable'
  BY DEF NoteInv, NoteTypes, StoredReadable
<1>2. app' # None => Matches(app)'
  <2>1. CASE app' = app
    BY <2>1 DEF NoteInv, NoteTypes, KeepsMatches, Matches
  <2> QED
    BY <2>1
<1>3. AddingKnown'
  <2>1. CASE adding' = adding /\ adding # None
    <3>1. adding.session \in Apps
      BY <2>1 DEF NoteInv, NoteTypes, Addings
    <3>2. Matches(adding.session)'
      BY <2>1, <3>1 DEF NoteInv, AddingKnown, KeepsMatches, Matches
    <3> QED
      BY <2>1, <3>2 DEF NoteInv, AddingKnown, KeepsDerived
  <2>2. CASE adding' = None
    BY <2>2 DEF AddingKnown
  <2> QED
    BY <2>1, <2>2
<1> QED
  BY <1>1, <1>2, <1>3 DEF NoteInv

LEMMA KeysStutter ==
  NoteInv /\ UNCHANGED key => KeySessions' /\ KeepsAccounts /\ KeepsDerived
  BY DEF NoteInv, KeySessions, KeepsAccounts, KeepsDerived, key

LEMMA KeyChanges ==
  ASSUME KeySessions, NEW t \in Tokens, NEW k \in Keys, keys' = [keys EXCEPT ![t] = k],
         k.account = keys[t].account
  PROVE  KeepsAccounts
  BY DEF KeySessions, KeepsAccounts

\* getKey answers a promise of that key session, made now if need be.
LEMMA GetKeyIs ==
  ASSUME NoteInv, NEW t \in Tokens, GetKey(t)
  PROVE  /\ KeySessions' /\ KeepsAccounts /\ KeepsDerived
         /\ Promise(t) \in DOMAIN derived' /\ derived'[Promise(t)].of = t
<1> DEFINE d == Len(derived) + 1
           k == [keys[t] EXCEPT !.cached = d]
<1>1. KeySessions /\ keys[t] \in Keys
  BY DEF NoteInv, KeySessions
<1>2. CASE keys[t].cached # 0
  BY <1>1, <1>2, KeysStutter DEF GetKey, Promise, key, KeySessions
<1>3. CASE keys[t].cached = 0
  <2>1. /\ derived' = Append(derived, [of |-> t, at |-> "asked"])
        /\ keys' = [keys EXCEPT ![t] = k] /\ Promise(t) = d
    BY <1>3 DEF GetKey, Promise
  <2>2. derived \in Seq(Derivation) /\ d \in Nat \ {0}
    BY <1>1 DEF KeySessions
  <2>3. k \in Keys /\ k.cached = d /\ k.account = keys[t].account
    BY <1>1, <2>2 DEF Keys
  <2>4. [of |-> t, at |-> "asked"] \in Derivation
    BY DEF Derivation
  <2>5. /\ derived' \in Seq(Derivation) /\ DOMAIN derived' = DOMAIN derived \cup {d}
        /\ derived'[d].of = t /\ \A i \in DOMAIN derived : derived'[i] = derived[i]
    BY <2>1, <2>2, <2>4
  <2> HIDE DEF d, k
  <2>6. KeySessions'
    BY <1>1, <2>1, <2>3, <2>5 DEF KeySessions
  <2> QED
    BY <1>1, <2>1, <2>3, <2>5, <2>6, KeyChanges DEF KeepsDerived
<1> QED
  BY <1>2, <1>3

LEMMA AccountsChangedKeeps ==
  NoteInv /\ AccountsChanged => KeySessions' /\ KeepsAccounts /\ KeepsDerived
<1> SUFFICES ASSUME NoteInv, AccountsChanged PROVE KeySessions' /\ KeepsAccounts /\ KeepsDerived
  OBVIOUS
<1>1. keys' = [t \in Tokens |-> [keys[t] EXCEPT !.cached = 0]] /\ derived' = derived
  BY DEF AccountsChanged
<1>2. \A t \in Tokens : keys[t] \in Keys
  BY DEF NoteInv, KeySessions
<1>3. ASSUME NEW t \in Tokens
      PROVE  keys'[t] \in Keys /\ keys'[t].cached = 0 /\ keys'[t].account = keys[t].account
  BY <1>1, <1>2 DEF Keys
<1>4. keys' \in [Tokens -> Keys]
  BY <1>1, <1>3
<1> QED
  BY <1>1, <1>3, <1>4 DEF NoteInv, KeySessions, KeepsAccounts, KeepsDerived

\* A derivation that ends, and drops the promise of its key session if it failed.
LEMMA DerivationEnds ==
  ASSUME NoteInv, NEW d \in DOMAIN derived, Derived(d) \/ DeriveFails(d)
  PROVE  KeySessions' /\ KeepsAccounts /\ KeepsDerived
<1>1. PICK at \in {"ready", "failed"} : derived' = [derived EXCEPT ![d].at = at]
  BY DEF Derived, DeriveFails
<1> DEFINE e == [derived[d] EXCEPT !.at = at]
           t == derived[d].of
           k == [keys[t] EXCEPT !.cached = 0]
<1>2. derived \in Seq(Derivation) /\ derived[d] \in Derivation /\ t \in Tokens
  <2>1. derived \in Seq(Derivation)
    BY DEF NoteInv, KeySessions
  <2>2. derived[d] \in Derivation
    BY <2>1
  <2> QED
    BY <2>1, <2>2 DEF Derivation
<1>3. e \in Derivation /\ e.of = t
  BY <1>2 DEF Derivation
<1>4. derived' = [derived EXCEPT ![d] = e]
  BY <1>1
<1> HIDE DEF e
<1>5. /\ derived' \in Seq(Derivation) /\ DOMAIN derived' = DOMAIN derived
      /\ \A i \in DOMAIN derived : derived'[i].of = derived[i].of
  BY <1>2, <1>3, <1>4
<1>6. keys[t] \in Keys
  BY <1>2 DEF NoteInv, KeySessions
<1>7. k \in Keys /\ k.cached = 0 /\ k.account = keys[t].account
  BY <1>6 DEF Keys
<1>8. keys' = keys \/ keys' = [keys EXCEPT ![t] = k]
  BY DEF Derived, DeriveFails
<1> HIDE DEF k, t
<1>9. KeepsAccounts
  BY <1>2, <1>7, <1>8, KeyChanges DEF NoteInv, KeepsAccounts
<1>10. KeySessions'
  BY <1>2, <1>5, <1>7, <1>8 DEF NoteInv, KeySessions
<1> QED
  BY <1>5, <1>9, <1>10 DEF KeepsDerived

\* The account a key session is made with is its token's.
LEMMA AcceptedKeeps ==
  ASSUME LoginInv, NoteInv, KeepsOwners, NEW h \in Slots, Accepted(h)
  PROVE  NoteInv'
<1>1. /\ notes' = notes /\ adding' = adding /\ count' = count /\ derived' = derived
      /\ count \in [notes : Nat, resends : Nat, restarts : Nat]
      /\ slot[h].at = "accept"
  BY DEF Accepted, NoteInv, NoteTypes
<1>2. CASE ~Waits(h)
  <2>1. UNCHANGED <<app, key>>
    BY <1>1, <1>2 DEF Accepted, key
  <2> QED
    BY <1>1, <2>1, KeysStutter, MatchesKept, NoteFrame
<1>3. CASE Waits(h)
  <2>1. PICK t \in Tokens : t = slot[h].token /\ Issued(t) /\ granted[t] = slot[h].nonce
    BY <1>1 DEF LoginInv, RequestsKnown, Issued
  <2>2. PICK a \in Accounts : a = message[slot[h].nonce].account /\ Owner(t) = a
    BY <1>1, <2>1 DEF Owner, LoginInv, RequestsKnown, LoginTypes, Asked, Messages
  <2>3. signing.account = a
    BY <1>3, <2>2 DEF Waits, LoginInv, SignInKnown
  <2> DEFINE k == [keys[t] EXCEPT !.account = signing.account]
  <2>4. app' = [token |-> t, address |-> a] /\ keys' = [keys EXCEPT ![t] = k]
    BY <1>3, <2>1, <2>2 DEF Accepted
  <2>5. keys[t] \in Keys /\ keys \in [Tokens -> Keys]
    BY DEF NoteInv, KeySessions
  <2>6. k \in Keys /\ k.account = a /\ k.cached = keys[t].cached
    BY <2>3, <2>5 DEF Keys
  <2> HIDE DEF k
  <2>7. KeySessions' /\ KeepsDerived
    BY <1>1, <2>4, <2>5, <2>6 DEF NoteInv, KeySessions, KeepsDerived
  <2>8. \A s \in Tokens : keys'[s] = IF s = t THEN k ELSE keys[s]
    BY <2>4, <2>5
  <2>9. KeepsMatches
    BY <2>2, <2>6, <2>8 DEF KeepsMatches, KeepsOwners, Matches, Apps
  <2>10. app'.token = t /\ app'.address = a /\ app' \in Apps
    BY <2>4 DEF Apps
  <2>11. Issued(t)' /\ Owner(t)' = a /\ keys'[t].account = a
    BY <2>1, <2>2, <2>6, <2>8 DEF KeepsOwners
  <2>12. Matches(app)'
    BY <2>10, <2>11 DEF Matches, Issued, Owner
  <2> QED
    BY <1>1, <2>7, <2>9, <2>10, <2>12, NoteFrame
<1> QED
  BY <1>2, <1>3

\* A note that is begun has a key session of the account it is begun for.
LEMMA AddNoteKeeps ==
  ASSUME NoteInv, KeepsOwners, AddNote PROVE NoteInv'
<1>1. PICK s \in Apps : s = app /\ Matches(s)
  BY DEF AddNote, NoteInv, NoteTypes
<1>2. PICK t \in Tokens : t = s.token
  BY <1>1 DEF Apps
<1>3. GetKey(t)
  BY <1>1, <1>2 DEF AddNote, Provider
<1>4. /\ KeySessions' /\ KeepsAccounts /\ KeepsDerived
      /\ Promise(t) \in DOMAIN derived' /\ derived'[Promise(t)].of = t
  BY <1>3, GetKeyIs
<1>5. KeepsMatches
  BY <1>4, MatchesKept
<1>6. /\ app' = app /\ notes' = notes
      /\ adding' = [at |-> "key", session |-> s, promise |-> Promise(t), blob |-> None, owner |-> None]
  BY <1>1, <1>2 DEF AddNote, page, server, Provider
<1>7. count \in [notes : Nat, resends : Nat, restarts : Nat]
      /\ count' = [count EXCEPT !.notes = count.notes + 1]
  BY DEF AddNote, NoteInv, NoteTypes
<1>8. count' \in [notes : Nat, resends : Nat, restarts : Nat]
  BY <1>7
<1>9. Promise(t) \in Nat
  BY <1>4 DEF KeySessions
<1>10. Matches(app)' /\ Matches(s)'
  BY <1>1, <1>5, <1>6 DEF KeepsMatches, Matches
<1>11. NoteTypes'
  BY <1>1, <1>6, <1>8, <1>9 DEF NoteInv, NoteTypes, Addings
<1>12. AddingKnown'
  <2>1. /\ adding'.session = s /\ adding'.promise = Promise(t) /\ adding'.at = "key"
    BY <1>6
  <2>2. Matches(adding.session)'
    BY <1>10, <2>1 DEF Matches
  <2> QED
    BY <1>2, <1>4, <2>1, <2>2 DEF AddingKnown
<1> QED
  BY <1>4, <1>6, <1>10, <1>11, <1>12 DEF NoteInv, StoredReadable

\* A note that goes on: the blob is of the tab's account, and so is its place.
LEMMA AddingKeeps ==
  ASSUME LoginInv, NoteInv, Encrypted \/ PostNote PROVE NoteInv'
<1>1. /\ UNCHANGED <<app, key, notes, count, message, granted>>
      /\ adding # None /\ adding \in Addings
  BY DEF Encrypted, PostNote, page, server, stores, NoteInv, NoteTypes
<1>2. KeySessions' /\ (app # None => Matches(app))' /\ StoredReadable'
  BY <1>1 DEF NoteInv, KeySessions, Matches, StoredReadable, Issued, Owner, key
<1>3. PICK s \in Apps, d \in DOMAIN derived :
        s = adding.session /\ Matches(s) /\ d = adding.promise /\ derived[d].of = s.token
  BY <1>1 DEF NoteInv, AddingKnown, Addings
<1>4. Matches(s)'
  BY <1>1, <1>3 DEF Matches, Issued, Owner, key
<1>5. CASE Encrypted
  <2> DEFINE b == [id |-> count.notes, key |-> KeyOf(adding.promise), aad |-> adding.session.address]
  <2>1. adding.at = "key" /\ adding' = [adding EXCEPT !.at = "sent", !.blob = b]
    BY <1>5 DEF Encrypted
  <2>2. b.key = s.address /\ b.aad = s.address /\ s.address \in Accounts
    BY <1>3 DEF KeyOf, Matches, Apps
  <2>3. b \in Blobs
    BY <1>3, <2>2 DEF Blobs, NoteInv, NoteTypes
  <2> HIDE DEF b
  <2>4. /\ adding' \in Addings /\ adding'.at = "sent" /\ adding'.blob = b
        /\ adding'.session = s /\ adding'.promise = d
    BY <1>1, <1>3, <2>1, <2>3 DEF Addings
  <2>5. AddingKnown'
    BY <1>1, <1>3, <1>4, <2>2, <2>3, <2>4 DEF AddingKnown, Matches, key
  <2> QED
    BY <1>1, <1>2, <2>4, <2>5 DEF NoteInv, NoteTypes
<1>6. CASE PostNote
  <2>1. CASE adding' = None
    BY <1>1, <1>2, <2>1 DEF NoteInv, NoteTypes, AddingKnown
  <2>2. CASE adding' # None
    <3> DEFINE o == sessions[adding.session.token].address
    <3>1. /\ adding.at = "sent" /\ Validate(adding.session.token)
          /\ adding' = [adding EXCEPT !.at = "body", !.owner = o]
      BY <1>6, <2>2 DEF PostNote
    <3>2. o = s.address /\ o \in Accounts
      BY <1>3, <3>1 DEF Validate, Matches, LoginInv, SessionsKnown, Apps
    <3> HIDE DEF o
    <3>3. /\ adding' \in Addings /\ adding'.at = "body" /\ adding'.owner = o
          /\ adding'.session = s /\ adding'.promise = d /\ adding'.blob = adding.blob
      BY <1>1, <1>3, <3>1, <3>2 DEF Addings
    <3>4. AddingKnown'
      BY <1>1, <1>3, <1>4, <3>1, <3>2, <3>3 DEF NoteInv, AddingKnown, Matches, key
    <3> QED
      BY <1>1, <1>2, <3>3, <3>4 DEF NoteInv, NoteTypes
  <2> QED
    BY <2>1, <2>2
<1> QED
  BY <1>5, <1>6

LEMMA StoreNoteKeeps ==
  ASSUME LoginInv, NoteInv, StoreNote PROVE NoteInv'
<1>1. /\ UNCHANGED <<app, key, count, message, granted>>
      /\ adding # None /\ adding \in Addings /\ adding.at = "body"
      /\ adding' = [adding EXCEPT !.at = "stored"]
  BY DEF StoreNote, page, stores, NoteInv, NoteTypes
<1>2. PICK a \in Accounts, b \in Blobs :
        /\ a = adding.session.address /\ adding.owner = a
        /\ b = adding.blob /\ b.key = a /\ b.aad = a
  BY <1>1 DEF NoteInv, AddingKnown, Addings, Apps
<1>3. notes \in [Accounts -> Seq(Blobs)] /\ notes' = [notes EXCEPT ![a] = Append(notes[a], b)]
  BY <1>2 DEF StoreNote, NoteInv, NoteTypes
<1>4. /\ notes' \in [Accounts -> Seq(Blobs)]
      /\ \A c \in Accounts \ {a} : notes'[c] = notes[c]
      /\ notes'[a] = Append(notes[a], b)
  BY <1>3
<1>5. ASSUME NEW i \in DOMAIN notes'[a] PROVE notes'[a][i] = b \/ (i \in DOMAIN notes[a] /\ notes'[a][i] = notes[a][i])
  <2>1. notes[a] \in Seq(Blobs)
    BY <1>3
  <2> QED
    BY <1>4, <2>1
<1>6. StoredReadable'
  <2>1. ASSUME NEW c \in Accounts, NEW i \in DOMAIN notes'[c]
        PROVE  notes'[c][i].key = c /\ notes'[c][i].aad = c
    <3>1. CASE c = a
      BY <1>2, <1>5, <2>1, <3>1 DEF NoteInv, StoredReadable
    <3>2. CASE c # a
      BY <1>4, <2>1, <3>2 DEF NoteInv, StoredReadable
    <3> QED
      BY <3>1, <3>2
  <2> QED
    BY <2>1 DEF StoredReadable
<1>7. /\ adding' \in Addings /\ adding'.at = "stored" /\ adding'.session = adding.session
      /\ adding'.promise = adding.promise /\ adding'.blob = adding.blob
  BY <1>1 DEF Addings
<1>8. AddingKnown'
  BY <1>1, <1>7 DEF NoteInv, AddingKnown, Matches, Issued, Owner, key
<1>9. KeySessions' /\ (app # None => Matches(app))'
  BY <1>1 DEF NoteInv, KeySessions, Matches, Issued, Owner, key
<1> QED
  BY <1>1, <1>4, <1>6, <1>7, <1>8, <1>9 DEF NoteInv, NoteTypes

LEMMA NoteStep == LoginInv /\ NoteInv /\ [Next]_vars => NoteInv'
<1> SUFFICES ASSUME LoginInv, NoteInv, [Next]_vars PROVE NoteInv'
  OBVIOUS
<1>1. KeepsOwners
  BY OwnersKept
<1>2. count \in [notes : Nat, resends : Nat, restarts : Nat]
  BY DEF NoteInv, NoteTypes
<1>3. ASSUME NEW h \in Slots, Accepted(h) PROVE NoteInv'
  BY <1>1, <1>3, AcceptedKeeps
<1>4. CASE AddNote
  BY <1>1, <1>4, AddNoteKeeps
<1>5. CASE Encrypted \/ PostNote
  BY <1>5, AddingKeeps
<1>6. CASE StoreNote
  BY <1>6, StoreNoteKeeps
<1>7. ASSUME NEW d \in DOMAIN derived, Derived(d) \/ DeriveFails(d) PROVE NoteInv'
  <2>1. notes' = notes /\ count' = count /\ adding' = adding /\ app' = app
    BY <1>7 DEF Derived, DeriveFails, server, page
  <2> QED
    BY <1>1, <1>2, <1>7, <2>1, DerivationEnds, MatchesKept, NoteFrame
<1>8. CASE AccountsChanged
  <2>1. notes' = notes /\ count' = count /\ adding' = adding /\ app' = app
    BY <1>8 DEF AccountsChanged, server, page
  <2> QED
    BY <1>1, <1>2, <1>8, <2>1, AccountsChangedKeeps, MatchesKept, NoteFrame
<1>9. CASE DecryptNote
  <2>1. GetKey(app.token) /\ app.token \in Tokens
    BY <1>9 DEF DecryptNote, Provider, NoteInv, NoteTypes, Apps
  <2>2. notes' = notes /\ count' = count /\ adding' = adding /\ app' = app
    BY <1>9 DEF DecryptNote, server
  <2> QED
    BY <1>1, <1>2, <2>1, <2>2, GetKeyIs, MatchesKept, NoteFrame
<1>10. ASSUME \/ SignIn \/ Challenge \/ Sign \/ SignInFails \/ SignOut \/ Tick
              \/ \E h \in Slots : \/ PostVerify(h) \/ Consume(h) \/ Issue(h)
                                  \/ Unverified(h) \/ Refused(h)
              \/ \E t \in Tokens : Revoke(t)
              \/ Added \/ AddFails \/ GetNotes \/ Loaded \/ LoadFails
              \/ Decrypted \/ DecryptFails \/ UNCHANGED vars
       PROVE  NoteInv'
  <2>1. /\ UNCHANGED <<key, notes, count>> /\ adding' \in {adding, None} /\ app' \in {app, None}
    BY <1>10 DEF SignIn, Challenge, Sign, SignInFails, SignOut, Tick, PostVerify, Consume, Issue,
       Unverified, Refused, Revoke, Added, AddFails, GetNotes, Loaded, LoadFails, Decrypted,
       DecryptFails, vars, server, page, key
  <2> QED
    BY <1>1, <1>2, <2>1, KeysStutter, MatchesKept, NoteFrame
<1>11. ASSUME Restart \/ \E h \in Slots : Resend(h) PROVE NoteInv'
  <2>1. /\ UNCHANGED <<key, notes, app>> /\ adding' \in {adding, None}
        /\ \/ count' = [count EXCEPT !.resends = count.resends + 1]
           \/ count' = [count EXCEPT !.restarts = count.restarts + 1]
    BY <1>11 DEF Restart, Resend, page
  <2>2. count' \in [notes : Nat, resends : Nat, restarts : Nat]
    BY <1>2, <2>1
  <2> QED
    BY <1>1, <2>1, <2>2, KeysStutter, MatchesKept, NoteFrame
<1> QED
  BY <1>3, <1>4, <1>5, <1>6, <1>7, <1>8, <1>9, <1>10, <1>11 DEF Next

\* Whatever the order in which the user signs in and out, changes accounts and
\* adds notes, a stored blob is under the key and the address of its own account.
THEOREM AlwaysReadable == Spec => []StoredReadable
<1>1. NoteInv => StoredReadable
  BY DEF NoteInv
<1> QED
  BY <1>1, NoteInit, NoteStep, LoginCorrect, PTL DEF Spec
=============================================================================

------------------------------- MODULE Vault -------------------------------
(***************************************************************************)
(* Sign-in with a wallet and notes encrypted under a key the wallet gives: *)
(* the stores of @valve-tech/siwe-store and @valve-tech/siwe-store-redis,  *)
(* the key session of @valve-tech/wallet-key-session, and the two programs *)
(* of examples/encrypted-vault that put them together.                     *)
(*                                                                         *)
(* One browser tab signs in, out and in again, with any account of its     *)
(* wallet; the server handles its requests, and others that present the    *)
(* same signed message, side by side.  With the "redis" backend a command  *)
(* is answered later than it takes effect, or not at all.                  *)
(***************************************************************************)
EXTENDS Integers, Sequences, FiniteSets

CONSTANTS
  None, Accounts,
  Slots,       \* sign-in requests a server handles at a time
  Backends,    \* subset of {"memory", "redis"}
  NonceTtl, SessionTtl,
  MaxNow, MaxNonces, MaxSessions, MaxNotes, MaxDerivations, MaxResends, MaxRestarts

Nonces == 1..MaxNonces
Tokens == 1..MaxSessions
Derivations == 1..MaxDerivations

ASSUME VaultAssumption ==
  /\ Backends \subseteq {"memory", "redis"}
  /\ {NonceTtl, SessionTtl, MaxNow, MaxNonces, MaxSessions, MaxNotes, MaxDerivations,
      MaxResends, MaxRestarts} \subseteq Nat

\* A message, a record of its account and expirationTime, is not None.
ASSUME NoneAssumption == None \notin [account : Accounts, expires : Nat]

VARIABLES
  backend, now,
  message,   \* the message a nonce was put in: its account and its expirationTime
  nonces,    \* the nonce store: when a nonce expires, None if it is not there
  sessions,  \* the session store: whose a token is and when it expires
  granted,   \* the nonces that the tokens issued so far were given for
  slot,      \* the handlers of POST /auth/verify
  notes,     \* the note store: of each account its blobs
  chosen,    \* the account selected in the wallet
  signing,   \* signIn, while it runs
  signed,    \* the nonces whose message is signed
  app,       \* the component's session, None when signed out
  keys,      \* the key session made with a token: its account, its cached promise
  derived,   \* the derivations: of which key session, and how they ended
  rows,      \* the notes on the screen
  loading, adding, decrypting,   \* the component's calls under way
  count      \* bounds: notes, repeated requests and restarts so far

stores == <<nonces, sessions, granted>>
server == <<backend, message, slot, notes>>
wallet == <<chosen, signing, signed>>
page == <<app, rows, loading, decrypting>>
key == <<keys, derived>>
vars == <<now, stores, server, wallet, page, adding, key, count>>

Free == [at |-> "free", nonce |-> 0, token |-> 0]
Off == [at |-> "off", account |-> None, nonce |-> 0, slot |-> None]
NoKey == [account |-> None, cached |-> 0]

Init ==
  /\ backend \in Backends /\ now = 0
  /\ message = [n \in Nonces |-> None] /\ nonces = [n \in Nonces |-> None]
  /\ sessions = [t \in Tokens |-> None] /\ granted = <<>>
  /\ slot = [h \in Slots |-> Free] /\ notes = [a \in Accounts |-> <<>>]
  /\ chosen \in Accounts /\ signing = Off /\ signed = {}
  /\ app = None /\ keys = [t \in Tokens |-> NoKey] /\ derived = <<>>
  /\ rows = <<>> /\ loading = None /\ adding = None /\ decrypting = None
  /\ count = [notes |-> 0, resends |-> 0, restarts |-> 0]

\* `busy`: the sign-in button and the composer are disabled.
Busy == signing # Off \/ adding # None
\* validate, in either store.
Validate(t) == sessions[t] # None /\ sessions[t].expires >= now

Tick ==
  /\ now < MaxNow /\ now' = now + 1
  /\ UNCHANGED <<stores, server, wallet, page, adding, key, count>>

-----------------------------------------------------------------------------
\* signIn: the account that is selected, a challenge, a signature, a request.

SignIn ==
  /\ app = None /\ ~Busy
  /\ signing' = [Off EXCEPT !.at = "challenge", !.account = chosen]
  /\ UNCHANGED <<now, stores, server, chosen, signed, page, adding, key, count>>

\* GET /auth/challenge.  The answer may be lost.
Challenge ==
  /\ signing.at = "challenge"
  /\ \E n \in Nonces :
       /\ message[n] = None /\ \A k \in 1..(n - 1) : message[k] # None
       /\ message' = [message EXCEPT ![n] =
            [account |-> signing.account, expires |-> now + NonceTtl]]
       /\ nonces' = [nonces EXCEPT ![n] = now + NonceTtl]
       /\ \/ signing' = [signing EXCEPT !.at = "sign", !.nonce = n]
          \/ signing' = Off
  /\ UNCHANGED <<now, sessions, granted, backend, slot, notes, chosen, signed, page, adding,
                 key, count>>

Sign ==
  /\ signing.at = "sign"
  /\ signing' = [signing EXCEPT !.at = "post"] /\ signed' = signed \cup {signing.nonce}
  /\ UNCHANGED <<now, stores, server, chosen, page, adding, key, count>>

\* A declined prompt, a request that fails.
SignInFails ==
  /\ signing # Off /\ signing' = Off
  /\ UNCHANGED <<now, stores, server, chosen, signed, page, adding, key, count>>

PostVerify(h) ==
  /\ signing.at = "post" /\ slot[h] = Free
  /\ slot' = [slot EXCEPT ![h] = [Free EXCEPT !.at = "consume", !.nonce = signing.nonce]]
  /\ signing' = [signing EXCEPT !.at = "verify", !.slot = h]
  /\ UNCHANGED <<now, stores, backend, message, notes, chosen, signed, page, adding, key, count>>

\* The same message once more.
Resend(h) ==
  /\ count.resends < MaxResends /\ slot[h] = Free
  /\ \E n \in signed :
       slot' = [slot EXCEPT ![h] = [Free EXCEPT !.at = "consume", !.nonce = n]]
  /\ count' = [count EXCEPT !.resends = @ + 1]
  /\ UNCHANGED <<now, stores, backend, message, notes, wallet, page, adding, key>>

\* The account changes, or the chain: every key session drops its key.
AccountsChanged ==
  /\ \E a \in Accounts : chosen' = a
  /\ keys' = [t \in Tokens |-> [keys[t] EXCEPT !.cached = 0]]
  /\ UNCHANGED <<now, stores, server, signing, signed, page, adding, derived, count>>

-----------------------------------------------------------------------------
\* authenticateSiwe.

To(h, at) == slot' = [slot EXCEPT ![h].at = at]

\* What consume answers: the nonce is there, and not expired.
Consumable(n) == nonces[n] # None /\ nonces[n] >= now
(* Mutant: the nonce is deleted only if the sign-in succeeds. *)
ConsumedLater(n) == nonces
Consumed(n) == [nonces EXCEPT ![n] = None]

\* consume, then the checks that need no waiting.
Consume(h) ==
  LET n == slot[h].nonce
  IN /\ slot[h].at = "consume"
     /\ nonces' = Consumed(n)
     /\ \/ To(h, IF Consumable(n) /\ now < message[n].expires THEN "signature" ELSE "refuse")
        \* Redis: the answer is lost, and the client throws or sends the DEL again.
        \/ backend = "redis" /\ (To(h, "refuse") \/ UNCHANGED slot)
     /\ UNCHANGED <<now, sessions, granted, backend, message, notes, wallet, page, adding,
                    key, count>>

\* verifySignature answered, and sessions.issue.
Issue(h) ==
  LET n == slot[h].nonce
      t == Len(granted) + 1
  IN /\ slot[h].at = "signature" /\ t \in Tokens
     /\ sessions' = [sessions EXCEPT ![t] =
          [address |-> message[n].account, expires |-> now + SessionTtl]]
     /\ granted' = Append(granted, n)
     /\ slot' = [slot EXCEPT ![h].at = "accept", ![h].token = t]
     /\ UNCHANGED <<now, nonces, backend, message, notes, wallet, page, adding, key, count>>

\* No signature of that account; its RPC, or the session store, fails.
Unverified(h) ==
  /\ slot[h].at = "signature" /\ To(h, "refuse")
  /\ UNCHANGED <<now, stores, backend, message, notes, wallet, page, adding, key, count>>

\* The answer, to whoever is still there for it.
Waits(h) == signing.at = "verify" /\ signing.slot = h

Refused(h) ==
  /\ slot[h].at = "refuse" /\ slot' = [slot EXCEPT ![h] = Free]
  /\ signing' = IF Waits(h) THEN Off ELSE signing
  /\ UNCHANGED <<now, stores, backend, message, notes, chosen, signed, page, adding, key, count>>

\* setSession, and the effect that loads the notes.
Accepted(h) ==
  LET t == slot[h].token
      a == message[slot[h].nonce].account
  IN /\ slot[h].at = "accept" /\ slot' = [slot EXCEPT ![h] = Free]
     /\ IF Waits(h)
        THEN /\ signing' = Off /\ app' = [token |-> t, address |-> a]
             /\ keys' = [keys EXCEPT ![t].account = signing.account]
             /\ loading' = [at |-> "sent", token |-> t, blobs |-> <<>>]
        ELSE UNCHANGED <<signing, app, keys, loading>>
     /\ UNCHANGED <<now, stores, backend, message, notes, chosen, signed, rows, decrypting,
                    adding, derived, count>>

SignOut ==
  /\ app # None
  /\ app' = None /\ rows' = <<>> /\ loading' = None
  /\ UNCHANGED <<now, stores, server, wallet, decrypting, adding, key, count>>

\* An application's sign-out revokes the token; the example's does not.
Revoke(t) ==
  /\ sessions[t] # None
  /\ sessions' = [sessions EXCEPT ![t] = None]
  /\ UNCHANGED <<now, nonces, granted, server, wallet, page, adding, key, count>>

-----------------------------------------------------------------------------
\* The key session: getKey and what becomes of a derivation.

(* Mutant: the key provider made first serves every session of the page. *)
FirstProvider(t) == 1
Provider(t) == t

\* The promise getKey returns, and what calling it leaves behind.
Promise(t) == IF keys[t].cached # 0 THEN keys[t].cached ELSE Len(derived) + 1
GetKey(t) ==
  IF keys[t].cached # 0 THEN UNCHANGED key
  ELSE /\ Len(derived) < MaxDerivations
       /\ derived' = Append(derived, [of |-> t, at |-> "asked"])
       /\ keys' = [keys EXCEPT ![t].cached = Len(derived) + 1]

Derived(d) ==
  /\ derived[d].at = "asked"
  /\ derived' = [derived EXCEPT ![d].at = "ready"]
  /\ UNCHANGED <<now, stores, server, wallet, page, adding, keys, count>>

\* The wallet declines: nothing is cached, whichever promise was.
DeriveFails(d) ==
  /\ derived[d].at = "asked"
  /\ derived' = [derived EXCEPT ![d].at = "failed"]
  /\ keys' = [keys EXCEPT ![derived[d].of].cached = 0]
  /\ UNCHANGED <<now, stores, server, wallet, page, adding, count>>

KeyOf(d) == keys[derived[d].of].account

-----------------------------------------------------------------------------
\* addNote, and POST /notes.

AddNote ==
  /\ app # None /\ ~Busy /\ count.notes < MaxNotes
  /\ count' = [count EXCEPT !.notes = @ + 1]
  /\ GetKey(Provider(app.token))
  /\ adding' = [at |-> "key", session |-> app, promise |-> Promise(Provider(app.token)),
                blob |-> None, owner |-> None]
  /\ UNCHANGED <<now, stores, server, wallet, page>>

Encrypted ==
  /\ adding # None /\ adding.at = "key" /\ derived[adding.promise].at = "ready"
  /\ adding' = [adding EXCEPT !.at = "sent",
       !.blob = [id |-> count.notes, key |-> KeyOf(adding.promise),
                 aad |-> adding.session.address]]
  /\ UNCHANGED <<now, stores, server, wallet, page, key, count>>

\* The session is looked up before the body has been read.
PostNote ==
  /\ adding # None /\ adding.at = "sent"
  /\ adding' = IF Validate(adding.session.token)
               THEN [adding EXCEPT !.at = "body",
                                   !.owner = sessions[adding.session.token].address]
               ELSE None
  /\ UNCHANGED <<now, stores, server, wallet, page, key, count>>

StoreNote ==
  /\ adding # None /\ adding.at = "body"
  /\ notes' = [notes EXCEPT ![adding.owner] = Append(@, adding.blob)]
  /\ adding' = [adding EXCEPT !.at = "stored"]
  /\ UNCHANGED <<now, stores, backend, message, slot, wallet, page, key, count>>

Row(blob, plain) == [blob |-> blob, plain |-> plain]

Added ==
  /\ adding # None /\ adding.at = "stored"
  /\ adding' = None /\ rows' = Append(rows, Row(adding.blob, adding.blob.id))
  /\ UNCHANGED <<now, stores, server, wallet, app, loading, decrypting, key, count>>

AddFails ==
  /\ adding # None
  /\ adding.at = "key" => derived[adding.promise].at = "failed"
  /\ adding' = None
  /\ UNCHANGED <<now, stores, server, wallet, page, key, count>>

-----------------------------------------------------------------------------
\* The notes on the screen: the effect's load, and decryptNote.

GetNotes ==
  /\ loading # None /\ loading.at = "sent"
  /\ loading' = IF Validate(loading.token)
                THEN [loading EXCEPT !.at = "answered",
                        !.blobs = notes[sessions[loading.token].address]]
                ELSE None
  /\ UNCHANGED <<now, stores, server, wallet, app, rows, decrypting, adding, key, count>>

Loaded ==
  /\ loading # None /\ loading.at = "answered"
  /\ loading' = None
  /\ rows' = [i \in DOMAIN loading.blobs |-> Row(loading.blobs[i], None)]
  /\ UNCHANGED <<now, stores, server, wallet, app, decrypting, adding, key, count>>

LoadFails ==
  /\ loading # None /\ loading' = None
  /\ UNCHANGED <<now, stores, server, wallet, app, rows, decrypting, adding, key, count>>

DecryptNote ==
  /\ app # None /\ decrypting = None
  /\ \E i \in DOMAIN rows :
       /\ rows[i].plain = None
       /\ decrypting' = [index |-> i, blob |-> rows[i].blob, aad |-> app.address,
                         promise |-> Promise(Provider(app.token))]
  /\ GetKey(Provider(app.token))
  /\ UNCHANGED <<now, stores, server, wallet, app, rows, loading, adding, count>>

\* The plaintext is put on the row that has that index by then.
Decrypted ==
  LET d == decrypting
  IN /\ d # None /\ derived[d.promise].at = "ready"
     /\ decrypting' = None
     /\ rows' = IF /\ d.blob.key = KeyOf(d.promise) /\ d.blob.aad = d.aad
                   /\ d.index \in DOMAIN rows
                THEN [rows EXCEPT ![d.index].plain = d.blob.id] ELSE rows
     /\ UNCHANGED <<now, stores, server, wallet, app, loading, adding, key, count>>

DecryptFails ==
  /\ decrypting # None /\ derived[decrypting.promise].at = "failed"
  /\ decrypting' = None
  /\ UNCHANGED <<now, stores, server, wallet, app, rows, loading, adding, key, count>>

-----------------------------------------------------------------------------
\* The server restarts: requests fail, the memory stores are new, notes stay.
Restart ==
  /\ count.restarts < MaxRestarts /\ count' = [count EXCEPT !.restarts = @ + 1]
  /\ slot' = [h \in Slots |-> Free]
  /\ signing' = IF signing.at = "verify" THEN Off ELSE signing
  /\ adding' = IF adding # None /\ adding.at \in {"body", "stored"} THEN None ELSE adding
  /\ loading' = None
  /\ IF backend = "memory"
     THEN /\ nonces' = [n \in Nonces |-> None] /\ sessions' = [t \in Tokens |-> None]
     ELSE UNCHANGED <<nonces, sessions>>
  /\ UNCHANGED <<now, granted, backend, message, notes, chosen, signed, app, rows, decrypting,
                 key>>

Next ==
  \/ SignIn \/ Challenge \/ Sign \/ SignInFails \/ SignOut \/ AccountsChanged
  \/ \E h \in Slots : \/ PostVerify(h) \/ Resend(h) \/ Consume(h) \/ Issue(h)
                      \/ Unverified(h) \/ Refused(h) \/ Accepted(h)
  \/ \E t \in Tokens : Revoke(t)
  \/ \E d \in DOMAIN derived : Derived(d) \/ DeriveFails(d)
  \/ AddNote \/ Encrypted \/ PostNote \/ StoreNote \/ Added \/ AddFails
  \/ GetNotes \/ Loaded \/ LoadFails
  \/ DecryptNote \/ Decrypted \/ DecryptFails
  \/ Restart \/ Tick

Spec == Init /\ [][Next]_vars

-----------------------------------------------------------------------------
(* A signed message is worth one session, however often it is presented, in *)
(* whatever order the stores answer, and over restarts                      *)
(* (siwe-store/src/nonce-store.ts:4-6, siwe-store-redis README:82).         *)
Ledger == INSTANCE LoginLedger WITH
  Messages <- Nonces,
  open     <- {n \in Nonces : nonces[n] # None},
  claimed  <- {slot[h].nonce : h \in {k \in Slots : slot[k].at = "signature"}}
LedgerSpec == Ledger!Spec

(* Whatever is stored for an account can be read with that account's own    *)
(* key and address: sessions, key sessions and calls under way of different *)
(* accounts never mix (App.tsx:86-93, server.ts:109-121).                   *)
StoredReadable ==
  \A a \in Accounts : \A i \in DOMAIN notes[a] :
    notes[a][i].key = a /\ notes[a][i].aad = a

-----------------------------------------------------------------------------
(* What comments of the repository say and the code does not do.            *)

(* key-session.ts:5-7: the promise is memoized, "so derive runs once even   *)
(* under concurrent callers": a derivation that fails drops no promise but  *)
(* its own.                                                                 *)
DerivesOnce ==
  [][\A d \in DOMAIN derived :
       derived'[d].at = "failed" /\ derived[d].at = "asked"
       => keys[derived[d].of].cached \in {0, d}]_vars

(* The rows on the screen are the signed-in account's.                      *)
RowsOwned ==
  app # None => \A i \in DOMAIN rows : rows[i].blob.aad = app.address

(* A decrypted text is put on its own row.                                  *)
TextFits == \A i \in DOMAIN rows : rows[i].plain \in {None, rows[i].blob.id}
=============================================================================

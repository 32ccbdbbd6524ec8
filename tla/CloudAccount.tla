----------------------------- MODULE CloudAccount -----------------------------
(***************************************************************************)
(* The account of the Google Drive provider: the loopback authorization    *)
(* (cloudsource/oauth.go), the provider's token and client                 *)
(* (providers/googledrive/provider.go) and the token store                 *)
(* (token_store.go).                                                       *)
(*                                                                         *)
(* One action is one step of StartOAuthFlow, one callback of the browser,  *)
(* one critical section of Provider.mu or one access to the token store,   *)
(* which Authenticate and Disconnect make with the mutex released.  Every  *)
(* authorization writes its redirect URL into the one oauth2.Config.       *)
(***************************************************************************)
EXTENDS Naturals, Sequences

CONSTANTS
    Attempts,      \* bound: authorizations, each with a state of its own
    Contexts,      \* bound: cancellable contexts of MirrorCloudAlbum
    AppContext,    \* the application's context
    Nobody,        \* no token, client, URL or result
    MaxCallbacks   \* bound: requests of the browser to the loopback listener

ASSUME NobodyIsNobody == Nobody \notin Attempts
ASSUME AppIsNoMirror == AppContext \notin Contexts
ASSUME CallbacksNat == MaxCallbacks \in Nat

VARIABLES
    token,       \* Provider.token: the authorization it came from
    client,      \* Provider.client: its token, and the context it refreshes in
    redirect,    \* oauthConfig.RedirectURL: whose listener it names
    flow,        \* where every authorization is
    page,        \* the redirect URL in the page opened for it
    sent,        \* results for resultCh, the first in it, the others blocked
    result,      \* what it has received
    callbacks,   \* requests made so far
    keychain,    \* the token in the system keychain
    file,        \* the token in the encrypted file
    keychainUp,  \* the keychain answers
    probe,       \* an IsAuthenticated that holds the mutex on its way to the file
    leaving,     \* where Disconnect is
    contexts,    \* contexts of mirrors: new, live or done
    undisturbed, \* history: nothing interfered with the change under way
    settled,     \* history: nor with the last one, and none has begun since
    latest,      \* history: what the last change left
    answered     \* history: whether the keychain answered it

flows == <<redirect, flow, page, sent, result, callbacks>>
stored == <<keychain, file>>
past == <<undisturbed, settled, latest, answered>>
accountVars == <<token, client, redirect, flow, page, sent, result, callbacks,
                 keychain, file, keychainUp, probe, leaving, contexts,
                 undisturbed, settled, latest, answered>>

Accounts == Attempts \cup {Nobody}
Results == [of : Attempts, denied : BOOLEAN]
FlowEnds == {"new", "done", "failed"}
FlowSteps == {"listening", "opening", "waiting", "received", "draining",
              "exchange", "adopt", "save"}

AccountTypeOK ==
    /\ token \in Accounts
    /\ client \in [of : Attempts, ctx : Contexts \cup {AppContext}] \cup {Nobody}
    /\ redirect \in Accounts
    /\ flow \in [Attempts -> FlowEnds \cup FlowSteps]
    /\ page \in [Attempts -> Accounts]
    /\ sent \in [Attempts -> Seq(Results)]
    /\ result \in [Attempts -> Results \cup {Nobody}]
    /\ callbacks \in 0..MaxCallbacks
    /\ keychain \in Accounts
    /\ file \in Accounts
    /\ keychainUp \in BOOLEAN
    /\ probe \in BOOLEAN
    /\ leaving \in {"no", "keychain", "file"}
    /\ contexts \in [Contexts -> {"new", "live", "done"}]
    /\ undisturbed \in BOOLEAN
    /\ settled \in BOOLEAN
    /\ latest \in Accounts
    /\ answered \in BOOLEAN

-------------------------------------------------------------------------------
(* Helpers.                                                                *)

Turns(t, there) == flow' = [flow EXCEPT ![t] = there]

\* A listener accepts until Shutdown begins, or until the flow ends.
Listening(t) == flow[t] \in {"listening", "opening", "waiting", "received"}

\* Handlers of t's callback wait for room in resultCh.
Held(t) == Len(sent[t]) > 1

MutexFree == ~probe

\* Somebody is between the provider's change and the store's.
Changing == leaving # "no" \/ \E t \in Attempts : flow[t] = "save"

ChangeBegins ==
    /\ undisturbed' = ~Changing
    /\ settled' = FALSE
    /\ UNCHANGED <<latest, answered>>

ChangeEnds(left, well) ==
    /\ settled' = (undisturbed /\ well)
    /\ latest' = left
    /\ answered' = keychainUp
    /\ UNCHANGED undisturbed

\* The keychain answers if it did so for the last change; what a removal that
\* it answered has left does not depend on it.
AsChanged == keychainUp = answered \/ (answered /\ latest = Nobody)

\* TokenStore.Load: the keychain first, then the file.
Loadable == IF keychainUp /\ keychain # Nobody THEN keychain ELSE file

-------------------------------------------------------------------------------
(* StartOAuthFlow                                                          *)

\* The listener, and its address in the shared configuration.  The Connect
\* button is disabled while its dialog lives; a dialog opened again starts
\* another authorization.
Listen(t) ==
    /\ flow[t] = "new"
    /\ \/ redirect' = t /\ Turns(t, "listening")
       \/ UNCHANGED redirect /\ Turns(t, "failed")
    /\ UNCHANGED <<token, client, page, sent, result, callbacks, stored, keychainUp,
                   probe, leaving, contexts, past>>

\* AuthCodeURL, with the redirect URL of this moment, and openBrowser.
OpenBrowser(t) ==
    /\ flow[t] = "listening"
    /\ page' = [page EXCEPT ![t] = redirect]
    /\ Turns(t, "opening")
    /\ UNCHANGED <<token, client, redirect, sent, result, callbacks, stored,
                   keychainUp, probe, leaving, contexts, past>>

\* openBrowser returns, which may take as long as the browser runs.
BrowserOpened(t) ==
    /\ flow[t] = "opening"
    /\ \E there \in {"waiting", "failed"} : Turns(t, there)
    /\ UNCHANGED <<token, client, redirect, page, sent, result, callbacks, stored,
                   keychainUp, probe, leaving, contexts, past>>

\* The user answers on t's page, or loads its answer again; the handler sends
\* the result, or waits for room.
Callback(t) ==
    /\ callbacks < MaxCallbacks
    /\ page[t] # Nobody
    /\ Listening(page[t])
    /\ callbacks' = callbacks + 1
    /\ \E denied \in BOOLEAN :
         sent' = [sent EXCEPT ![page[t]] =
                    Append(@, [of |-> t, denied |-> denied])]
    /\ UNCHANGED <<token, client, redirect, flow, page, result, stored, keychainUp,
                   probe, leaving, contexts, past>>

Receive(t) ==
    /\ flow[t] = "waiting"
    /\ sent[t] # <<>>
    /\ result' = [result EXCEPT ![t] = Head(sent[t])]
    /\ sent' = [sent EXCEPT ![t] = Tail(@)]
    /\ Turns(t, "received")
    /\ UNCHANGED <<token, client, redirect, page, callbacks, stored, keychainUp, probe,
                   leaving, contexts, past>>

\* Shutdown closes the listener and waits for the handlers.
Shutdown(t) ==
    /\ flow[t] = "received"
    /\ Turns(t, "draining")
    /\ UNCHANGED <<token, client, redirect, page, sent, result, callbacks, stored,
                   keychainUp, probe, leaving, contexts, past>>

\* Mutant of TimesOut: there is no timeout.
TimesOutNever(t) == FALSE /\ UNCHANGED accountVars

\* Five minutes without a callback: Shutdown as well.
TimesOut(t) ==
    /\ flow[t] = "waiting"
    /\ Turns(t, "draining")
    /\ UNCHANGED <<token, client, redirect, page, sent, result, callbacks, stored,
                   keychainUp, probe, leaving, contexts, past>>

\* Shutdown returns; the result is checked.
Drained(t) ==
    /\ flow[t] = "draining"
    /\ ~Held(t)
    /\ Turns(t, IF result[t] = [of |-> t, denied |-> FALSE] THEN "exchange"
                                                            ELSE "failed")
    /\ UNCHANGED <<token, client, redirect, page, sent, result, callbacks, stored,
                   keychainUp, probe, leaving, contexts, past>>

\* Exchange sends the redirect URL of this moment; Google compares it with
\* the one in the page.
Exchange(t) ==
    /\ flow[t] = "exchange"
    /\ \/ redirect = page[t] /\ Turns(t, "adopt")
       \/ Turns(t, "failed")
    /\ UNCHANGED <<token, client, redirect, page, sent, result, callbacks, stored,
                   keychainUp, probe, leaving, contexts, past>>

-------------------------------------------------------------------------------
(* Provider                                                                *)

\* Authenticate, the critical section.
Adopt(t) ==
    /\ flow[t] = "adopt"
    /\ MutexFree
    /\ token' = t
    /\ client' = Nobody
    /\ ChangeBegins
    /\ Turns(t, "save")
    /\ UNCHANGED <<redirect, page, sent, result, callbacks, stored, keychainUp, probe,
                   leaving, contexts>>

\* What the file may hold when saveEncrypted has returned or was cut off: what
\* it could not write in full does not decrypt.
SavedEncrypted(t) == {t, file, Nobody}

\* TokenStore.Save, with the mutex released; its error is only logged.
Save(t) ==
    /\ flow[t] = "save"
    /\ IF keychainUp
         THEN keychain' = t /\ UNCHANGED file /\ ChangeEnds(t, TRUE)
         ELSE /\ file' \in SavedEncrypted(t)
              /\ UNCHANGED keychain
              /\ ChangeEnds(t, file' = t)
    /\ Turns(t, "done")
    /\ UNCHANGED <<token, client, redirect, page, sent, result, callbacks,
                   keychainUp, probe, leaving, contexts>>

\* A token is loaded: in the middle of a change, that disturbs it.
Loads(account) ==
    /\ token' = account
    /\ undisturbed' = (undisturbed /\ ~Changing)

\* IsAuthenticated without a token asks the keychain, with the mutex held.
ProbeKeychain ==
    /\ MutexFree
    /\ token = Nobody
    /\ IF keychainUp /\ keychain # Nobody
         THEN Loads(keychain) /\ UNCHANGED probe
         ELSE probe' = TRUE /\ UNCHANGED <<token, undisturbed>>
    /\ settled' = (settled /\ AsChanged)
    /\ UNCHANGED <<client, flows, stored, keychainUp, leaving, contexts, latest,
                   answered>>

\* And then the file.
ProbeFile ==
    /\ probe
    /\ probe' = FALSE
    /\ IF file # Nobody THEN Loads(file) ELSE UNCHANGED <<token, undisturbed>>
    /\ UNCHANGED <<client, flows, stored, keychainUp, leaving, contexts, settled,
                   latest, answered>>

LiveContexts == {AppContext} \cup {c \in Contexts : contexts[c] = "live"}

\* getClient, called with the context of a mirror or of the application.
GetClient(c) ==
    /\ MutexFree
    /\ client = Nobody
    /\ token # Nobody
    /\ c \in LiveContexts
    /\ client' = [of |-> token, ctx |-> c]
    /\ UNCHANGED <<token, flows, stored, keychainUp, probe, leaving, contexts, past>>

\* Disconnect, the critical section.
Disconnect ==
    /\ leaving = "no"
    /\ MutexFree
    /\ token' = Nobody
    /\ client' = Nobody
    /\ ChangeBegins
    /\ leaving' = "keychain"
    /\ UNCHANGED <<flows, stored, keychainUp, probe, contexts>>

\* TokenStore.Delete, with the mutex released: the keychain's errors are
\* ignored.
DeleteKeychain ==
    /\ leaving = "keychain"
    /\ keychain' = IF keychainUp THEN Nobody ELSE keychain
    /\ leaving' = "file"
    /\ UNCHANGED <<token, client, flows, file, keychainUp, probe, contexts, past>>

\* Mutant of DeleteFile: it stops where the keychain answered.
DeleteFileUnlessUp ==
    /\ leaving = "file"
    /\ file' = IF keychainUp THEN file ELSE Nobody
    /\ ChangeEnds(Nobody, TRUE)
    /\ leaving' = "no"
    /\ UNCHANGED <<token, client, flows, keychain, keychainUp, probe, contexts>>

\* os.Remove, its error ignored too.
DeleteFile ==
    /\ leaving = "file"
    /\ file' \in {Nobody, file}
    /\ ChangeEnds(Nobody, file' = Nobody)
    /\ leaving' = "no"
    /\ UNCHANGED <<token, client, flows, keychain, keychainUp, probe, contexts>>

-------------------------------------------------------------------------------
(* The environment.                                                        *)

MirrorBegins(c) ==
    /\ contexts[c] = "new"
    /\ contexts' = [contexts EXCEPT ![c] = "live"]
    /\ UNCHANGED <<token, client, flows, stored, keychainUp, probe, leaving, past>>

\* MirrorCloudAlbum returns or is cancelled.
MirrorEnds(c) ==
    /\ contexts[c] = "live"
    /\ contexts' = [contexts EXCEPT ![c] = "done"]
    /\ UNCHANGED <<token, client, flows, stored, keychainUp, probe, leaving, past>>

\* The keychain is locked or its service stops, or it answers again.
KeychainFlaps ==
    /\ keychainUp' = ~keychainUp
    /\ undisturbed' = (undisturbed /\ ~Changing)
    /\ UNCHANGED <<token, client, flows, stored, probe, leaving, contexts, settled,
                   latest, answered>>

\* The application ends, in whatever it is doing, and is started again.
Relaunch ==
    /\ token' = Nobody
    /\ client' = Nobody
    /\ redirect' = Nobody
    /\ flow' = [t \in Attempts |-> IF flow[t] \in FlowEnds THEN flow[t] ELSE "failed"]
    /\ sent' = [t \in Attempts |-> <<>>]
    /\ probe' = FALSE
    /\ leaving' = "no"
    /\ contexts' = [c \in Contexts |-> IF contexts[c] = "live" THEN "done"
                                                               ELSE contexts[c]]
    /\ \/ UNCHANGED file
       \/ /\ ~keychainUp
          /\ \E t \in Attempts : flow[t] = "save" /\ file' \in SavedEncrypted(t)
    /\ UNCHANGED <<page, result, callbacks, keychain, keychainUp, past>>

-------------------------------------------------------------------------------

AccountInit ==
    /\ token = Nobody
    /\ client = Nobody
    /\ redirect = Nobody
    /\ flow = [t \in Attempts |-> "new"]
    /\ page = [t \in Attempts |-> Nobody]
    /\ sent = [t \in Attempts |-> <<>>]
    /\ result = [t \in Attempts |-> Nobody]
    /\ callbacks = 0
    /\ keychain = Nobody
    /\ file = Nobody
    /\ keychainUp \in BOOLEAN
    /\ probe = FALSE
    /\ leaving = "no"
    /\ contexts = [c \in Contexts |-> "new"]
    /\ undisturbed = TRUE
    /\ settled = TRUE
    /\ latest = Nobody
    /\ answered = keychainUp

LoopbackNext(t) ==
    \/ OpenBrowser(t)
    \/ BrowserOpened(t)
    \/ Receive(t)
    \/ TimesOut(t)
    \/ Shutdown(t)
    \/ Drained(t)
    \/ Exchange(t)

FlowNext(t) == LoopbackNext(t) \/ Adopt(t) \/ Save(t)

DisconnectNext == DeleteKeychain \/ DeleteFile

AccountNext ==
    \/ \E t \in Attempts : Listen(t) \/ Callback(t) \/ FlowNext(t)
    \/ ProbeKeychain
    \/ ProbeFile
    \/ \E c \in Contexts \cup {AppContext} : GetClient(c)
    \/ Disconnect
    \/ DisconnectNext
    \/ \E c \in Contexts : MirrorBegins(c) \/ MirrorEnds(c)
    \/ KeychainFlaps
    \/ Relaunch

AccountSpec == AccountInit /\ [][AccountNext]_accountVars

\* Goroutines run, timers fire, the program that opens the browser and the
\* requests to Google return, and a mutex starves nobody.
AccountFairSpec ==
    /\ AccountSpec
    /\ \A t \in Attempts :
         /\ WF_accountVars(LoopbackNext(t))
         /\ SF_accountVars(Adopt(t))
         /\ WF_accountVars(Save(t))
    /\ WF_accountVars(ProbeFile)
    /\ WF_accountVars(DisconnectNext)

-------------------------------------------------------------------------------
(* What holds.                                                             *)

\* Requests go out with the token of the account that is connected: whatever
\* authorizations, disconnections and first uses overlap, there is no client
\* of an account left behind.
ClientIsCurrent == client # Nobody => client.of = token

\* A change that nothing interfered with while it was made lasts, though the
\* keychain stops and starts answering afterwards.  After Authenticate its token
\* is what the provider has, and what it loads, in this run of the application
\* and the next, whenever the keychain answers as it did then; after Disconnect
\* there is none to be found, and ever if the keychain has answered.  The code
\* has two places for the token, either of which may hold an older one, and
\* writes them with the mutex released.  A token the provider looked up while the
\* keychain was otherwise is not spoken of (see ChangesOutlastOutages).
SettledAccountLasts ==
    settled => /\ token \in {Nobody, latest}
               /\ AsChanged => Loadable = latest

\* An authorization ends, unless its Shutdown waits for a handler.
FlowsEndUnlessHeld ==
    \A t \in Attempts :
        flow[t] \in FlowSteps ~> flow[t] \in FlowEnds \/ Held(t)

(***************************************************************************)
(* Why SettledAccountLasts holds: the inductive invariant.                 *)
(***************************************************************************)

\* IsAuthenticated asks the store only when there is no token, and nobody
\* gives the provider one while it does.
ProbesHaveNoToken == probe => token = Nobody

\* A save that nothing interfered with is of the token in use, and the only
\* change under way.
SaversAreAlone ==
    \A t \in Attempts :
        flow[t] = "save" /\ undisturbed =>
            /\ token = t
            /\ leaving = "no"
            /\ \A u \in Attempts : flow[u] = "save" => u = t

\* So is such a removal, and the keychain, if it answers, has been cleared
\* before the file.
LeaversAreAlone ==
    leaving # "no" /\ undisturbed =>
        /\ token = Nobody
        /\ \A t \in Attempts : flow[t] # "save"
        /\ leaving = "file" /\ keychainUp => keychain = Nobody

\* A look on its way to the file will find nothing or what the change left.
ProbesFindTheLatest == probe /\ settled => file \in {Nobody, latest}

\* Where a change has left it: the store that was looked at first then.
ChangeIsStored ==
    settled => (IF answered /\ keychain # Nobody THEN keychain ELSE file) = latest

SettledIsOver == settled => ~Changing

AccountInv ==
    /\ AccountTypeOK
    /\ ClientIsCurrent
    /\ ProbesHaveNoToken
    /\ SaversAreAlone
    /\ LeaversAreAlone
    /\ ProbesFindTheLatest
    /\ ChangeIsStored
    /\ SettledIsOver
    /\ SettledAccountLasts

-------------------------------------------------------------------------------
(* What the comments say, and the code does not do.                        *)

\* "Returns the obtained token or an error": while openBrowser has not
\* returned the user loads the page again, and then once more; one result is
\* received, one fits into resultCh, and the third handler keeps Shutdown,
\* which has no deadline.
FlowsEnd == \A t \in Attempts : flow[t] \in FlowSteps ~> flow[t] \in FlowEnds

\* "DisconnectCloudSource removes auth for a provider": while it is removed,
\* nobody but an authorization gives the provider a token.
DisconnectRemovesAuth ==
    [][leaving # "no" /\ UNCHANGED flow => token' \in {token, Nobody}]_accountVars

\* The address an authorization exchanges its code for is the one it gave.
ExchangesItsRedirect ==
    \A t \in Attempts : flow[t] = "exchange" => redirect = page[t]

\* The client outlives the call that happened to create it: it refreshes its
\* token in that call's context, and fails for ever once that is cancelled.
ClientOutlivesMirrors ==
    client # Nobody /\ client.ctx # AppContext => contexts[client.ctx] = "live"

\* "Load retrieves a previously-saved OAuth2 token": what it finds, if anything,
\* is what the last change saved.  Not so once the keychain answers otherwise
\* than at the change: Save writes one store and leaves an older token in the
\* other, and Delete ignores the keychain's error.
ChangesOutlastOutages == settled => Loadable \in {Nobody, latest}

\* Disconnect leaves nothing behind: it ignores the error of a keychain that
\* does not answer, and the token is there when it answers again.
DisconnectedIsGone ==
    [][DeleteFile /\ undisturbed => keychain' = Nobody]_accountVars
===============================================================================

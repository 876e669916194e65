----------------------------- MODULE TokenStore -----------------------------
(***************************************************************************)
(* The tokens of the ChatGPT account in one file (chatgpt_auth.py): signing *)
(* in, refreshing and logging out, by the threads of the API and by the    *)
(* command line, without a lock.  The provider is outside: it accepts a    *)
(* refresh token until it gives a newer one for it.                        *)
(*                                                                         *)
(* A pair of tokens is the number of its issue; 0 is none.  The client id, *)
(* the checks of the ID token and the user's data are left out.            *)
(***************************************************************************)
EXTENDS Naturals

CONSTANTS Call,       \* calls under way at a time
          MaxTokens   \* bounds how many tokens the provider issues

ASSUME TokensAssumption == MaxTokens \in Nat

VARIABLES onFile,        \* the refresh token in chatgpt_tokens.json, or 0
          accessExpired, \* the access token beside it is_expired
          tokenCalls,    \* [Call -> where it is, and the tokens it has]
          accepted,      \* the refresh tokens the provider would accept
          issued,        \* how many it has issued
          wanted,        \* history: the user signed in, and did not log out since
          excused        \* history: since then refreshes met, or the provider's answer was lost

tokenVars == <<onFile, accessExpired, tokenCalls, accepted, issued, wanted, excused>>
provider == <<accepted, issued>>
file == <<onFile, accessExpired>>
sinceThen == <<wanted, excused>>

Issue == 1 .. MaxTokens
NoCall == [at |-> "idle", old |-> 0, new |-> 0]

TokensTypeOK ==
    /\ onFile \in {0} \cup Issue /\ accessExpired \in BOOLEAN
    /\ tokenCalls \in [Call -> [at : {"idle", "code", "granted", "expired", "asks",
                                      "answered", "refused"},
                                old : {0} \cup Issue, new : {0} \cup Issue]]
    /\ accepted \subseteq Issue /\ issued \in 0 .. MaxTokens
    /\ wanted \in BOOLEAN /\ excused \in BOOLEAN

TokensInit ==
    /\ onFile = 0 /\ accessExpired = FALSE /\ accepted = {} /\ issued = 0
    /\ tokenCalls = [c \in Call |-> NoCall] /\ wanted = FALSE /\ excused = FALSE

CallGoes(c, at, old, new) ==
    tokenCalls' = [tokenCalls EXCEPT ![c] = [at |-> at, old |-> old, new |-> new]]
CallEnds(c) == tokenCalls' = [tokenCalls EXCEPT ![c] = NoCall]

\* Refreshes that have loaded their token and will save or clear.
Refreshing(c) == tokenCalls[c].at \in {"asks", "answered", "refused"}
RefreshUnderWay == \E c \in Call : Refreshing(c)

-----------------------------------------------------------------------------
(* exchange_code.                                                          *)

SignsIn(c) ==
    /\ tokenCalls[c].at = "idle" /\ CallGoes(c, "code", 0, 0)
    /\ UNCHANGED <<file, provider, sinceThen>>

IsGranted(c) ==
    /\ tokenCalls[c].at = "code" /\ issued < MaxTokens
    /\ issued' = issued + 1 /\ accepted' = accepted \cup {issued'}
    /\ CallGoes(c, "granted", 0, issued')
    /\ UNCHANGED <<file, sinceThen>>

SavesSignIn(c) ==
    /\ tokenCalls[c].at = "granted" /\ CallEnds(c)
    /\ onFile' = tokenCalls[c].new /\ accessExpired' = FALSE
    /\ wanted' = TRUE /\ excused' = (RefreshUnderWay \/ tokenCalls[c].new \notin accepted)
    /\ UNCHANGED provider

-----------------------------------------------------------------------------
(* get_valid_token and refresh_access_token.                               *)

FindsExpired(c) ==
    /\ tokenCalls[c].at = "idle" /\ onFile # 0 /\ accessExpired
    /\ CallGoes(c, "expired", 0, 0)
    /\ UNCHANGED <<file, provider, sinceThen>>

\* The refresh reads the file again and does not ask whether it still has to.
LoadsAgain(c) ==
    /\ tokenCalls[c].at = "expired"
    /\ IF onFile = 0 THEN CallEnds(c) /\ UNCHANGED excused
                     ELSE CallGoes(c, "asks", onFile, 0) /\ excused' = (excused \/ RefreshUnderWay)
    /\ UNCHANGED <<file, provider, wanted>>

\* The provider's answer: with a new refresh token, without one, and HTTP 400
Rotates(c) ==
    /\ tokenCalls[c].at = "asks" /\ tokenCalls[c].old \in accepted /\ issued < MaxTokens
    /\ issued' = issued + 1
    /\ accepted' = (accepted \ {tokenCalls[c].old}) \cup {issued'}
    /\ CallGoes(c, "answered", tokenCalls[c].old, issued')
    /\ UNCHANGED <<file, sinceThen>>

Renews(c) ==
    /\ tokenCalls[c].at = "asks" /\ tokenCalls[c].old \in accepted
    /\ CallGoes(c, "answered", tokenCalls[c].old, 0)
    /\ UNCHANGED <<file, provider, sinceThen>>

Refuses(c) ==
    /\ tokenCalls[c].at = "asks" /\ tokenCalls[c].old \notin accepted
    /\ CallGoes(c, "refused", tokenCalls[c].old, 0)
    /\ UNCHANGED <<file, provider, sinceThen>>

\* Mutant of NewRefreshToken: the token that was used is kept.
KeptRefreshToken(old, new) == old

NewRefreshToken(old, new) == IF new # 0 THEN new ELSE old

SavesRefreshed(c) ==
    /\ tokenCalls[c].at = "answered" /\ CallEnds(c)
    /\ onFile' = NewRefreshToken(tokenCalls[c].old, tokenCalls[c].new) /\ accessExpired' = FALSE
    /\ UNCHANGED <<provider, sinceThen>>

\* clear, which only warns when the file cannot be removed
ClearsFile(gone) == IF gone THEN onFile' = 0 /\ accessExpired' = FALSE ELSE UNCHANGED file

ClearsTokens(c) ==
    /\ tokenCalls[c].at = "refused" /\ CallEnds(c)
    /\ \E gone \in BOOLEAN : ClearsFile(gone)
    /\ UNCHANGED <<provider, sinceThen>>

\* No connection, an answer that cannot be used, a file that cannot be written,
\* or the process is killed
BreaksOff(c) ==
    /\ tokenCalls[c].at # "idle" /\ CallEnds(c)
    /\ excused' = (excused \/ (tokenCalls[c].at = "answered" /\ tokenCalls[c].new # 0))
    /\ UNCHANGED <<file, provider, wanted>>

-----------------------------------------------------------------------------
LogsOut ==
    /\ \E gone \in BOOLEAN :
          ClearsFile(gone) /\ excused' = (RefreshUnderWay \/ (~gone /\ onFile # 0))
    /\ wanted' = FALSE
    /\ UNCHANGED <<tokenCalls, provider>>

Expires ==
    /\ onFile # 0 /\ ~accessExpired /\ accessExpired' = TRUE
    /\ UNCHANGED <<onFile, tokenCalls, provider, sinceThen>>

\* The user withdraws the access at the provider.
Revokes ==
    /\ accepted # {} /\ accepted' = {} /\ excused' = TRUE
    /\ UNCHANGED <<file, tokenCalls, issued, wanted>>

TokensNext ==
    \/ \E c \in Call : \/ SignsIn(c) \/ IsGranted(c) \/ SavesSignIn(c)
                       \/ FindsExpired(c) \/ LoadsAgain(c) \/ Rotates(c) \/ Renews(c)
                       \/ Refuses(c) \/ SavesRefreshed(c) \/ ClearsTokens(c) \/ BreaksOff(c)
    \/ LogsOut \/ Expires \/ Revokes

TokensSpec == TokensInit /\ [][TokensNext]_tokenVars

-----------------------------------------------------------------------------
(* Properties.                                                             *)

\* Who has signed in stays signed in, with a token the provider accepts or one
\* that is being replaced, and who has logged out stays logged out; unless a
\* refresh was under way when another one, a sign-in or the logout came, the
\* provider's answer was lost, the file could not be removed, or the user withdrew
\* the access there.  The next sign-in or logout without these makes up for them.
SignInStands ==
    ~excused =>
        IF wanted
        THEN /\ onFile # 0
             /\ \/ onFile \in accepted
                \/ \E c \in Call : tokenCalls[c].at = "answered" /\ tokenCalls[c].old = onFile
        ELSE onFile = 0
=============================================================================

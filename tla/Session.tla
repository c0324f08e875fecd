-------------------------------- MODULE Session --------------------------------
(***************************************************************************)
(* Who is signed in: the API key in the browser's localStorage, which all  *)
(* tabs share, and the copy of it that ApiKeyGate takes when the playground *)
(* is opened in this tab.                                                  *)
(***************************************************************************)
CONSTANTS
    Keys,    \* API keys, each of another institution
    NoKey

VARIABLES
    stored,  \* localStorage, "gpay.apiKey"
    page,    \* what this tab shows; "login" and "gate" before their effect has run
    apiKey   \* ApiKeyGate's state, NoKey while it is not mounted

session == <<stored, page, apiKey>>

Pages == {"login", "form", "gate", "playground"}

SessionInit == stored \in Keys \cup {NoKey} /\ page = "login" /\ apiKey = NoKey

\* The effect of the login page: who has a key goes on to the dashboard.
LoginEffect ==
    /\ page = "login"
    /\ page' = IF stored = NoKey THEN "form" ELSE "gate"
    /\ UNCHANGED <<stored, apiKey>>

Submit(k) ==
    /\ page = "form"
    /\ stored' = k /\ page' = "gate"
    /\ UNCHANGED apiKey

\* ApiKeyGate reads the key once; without one it goes back to the login page.
GateEffect ==
    /\ page = "gate"
    /\ IF stored = NoKey THEN page' = "login" /\ UNCHANGED apiKey
       ELSE page' = "playground" /\ apiKey' = stored
    /\ UNCHANGED stored

\* By a link or the address bar.  The dashboard's components are gone.  The pages of the
\* documentation read no key and are left out.
Visit(p) ==
    /\ p \in {"login", "gate"}
    /\ page' = p /\ apiKey' = NoKey
    /\ UNCHANGED stored

\* The header that the playground is shown under.
SignOut ==
    /\ page \in {"gate", "playground"}
    /\ stored' = NoKey /\ page' = "login" /\ apiKey' = NoKey

\* Another tab signs in or out.  This one is not told.
OtherTab(k) ==
    /\ stored' = k
    /\ UNCHANGED <<page, apiKey>>

Leave == SignOut \/ \E p \in Pages : Visit(p)
Arrive == LoginEffect \/ GateEffect \/ \E k \in Keys : Submit(k)

==============================================================================

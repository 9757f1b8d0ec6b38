------------------------------ MODULE Plugins ------------------------------
(***************************************************************************)
(* Plugins, from the vault that keeps them to the workers that run them:    *)
(* packages and the signer policy (src/documents.ts and the same rules in   *)
(* the desktop core, src-tauri/src/lib.rs), the owner's commands in a       *)
(* terminal (src/cli.ts) and in the app (desktop/src/App.tsx), and the host *)
(* of the sandboxed workers (desktop/src/plugins/host.ts).                  *)
(*                                                                          *)
(* Every command of the app is followed by a refresh: it lists the plugins, *)
(* fetches the source of those that are on, stops what should not run and   *)
(* starts what should, with an answer of the desktop core awaited at each   *)
(* point.  A source is the revision it came with; what a manifest asks for, *)
(* the content of a call and the plugin's own settings are left out.  An ID *)
(* is never used twice: a plugin that is installed again is another one.    *)
(***************************************************************************)
EXTENDS Naturals, FiniteSets

CONSTANTS
  Plugin,
  Signer,        \* signing keys
  Unsigned,      \* the signer of a package that has none
  Refresh,       \* refreshes of the app that may be under way at once
  Nothing,       \* not installed, not running, nothing asked
  Gone,          \* removed
  Overlap,       \* {"cutoff"} if a signer is restored whose revocation was cut off
  MaxRevision,   \* bound: installs of one plugin
  MaxLocks,      \* bound: times the app locks the vault
  MaxKills       \* bound: deaths of a terminal's command

VARIABLES
  installed,   \* per plugin Nothing, Gone or [signer, revision, on]
  restricted,  \* in plugin-policy.enc: signed plugins only
  revoked,     \* in plugin-policy.enc: the revoked signers
  revoking,    \* Nothing, or a revocation in the vault lock: [by, signer, left]
  off,         \* history: plugins turned off, never on, or of a signer that was
               \* revoked, and not turned on since
  unfinished,  \* history: revoked signers whose revocation was cut off
  session,     \* the desktop core's sessions so far; odd while one is open
  running,     \* the host's table: per plugin Nothing or its entry
  strays,      \* workers that run and are in no table
  refresh,     \* per refresh Nothing or what it has learnt
  stopped,     \* history: plugins the app has reported as stopped
  kills

vault == <<installed, restricted, revoked, revoking, off, unfinished>>
host == <<running, strays>>
pluginsVars == <<vault, session, host, refresh, stopped, kills>>

\* What plugins.enc says of a plugin.
Package == [signer : Signer \cup {Unsigned}, revision : Nat, on : BOOLEAN]
\* A command that revokes a signer, with the plugins it has still to turn off.
Who == {"app", "terminal"}
Revocation == [by : Who, signer : Signer, left : SUBSET Plugin]

ASSUME PluginsConstantsOK ==
  /\ Unsigned \notin Signer /\ Nothing # Gone /\ {Nothing, Gone} \cap Package = {}
  /\ Nothing \notin Revocation
  /\ {MaxRevision, MaxLocks, MaxKills} \subseteq Nat /\ Overlap \subseteq {"cutoff"}

PluginsInit ==
  /\ installed = [p \in Plugin |-> Nothing]
  /\ restricted = FALSE /\ revoked = {} /\ revoking = Nothing
  /\ off = {} /\ unfinished = {}
  /\ session = 1
  /\ running = [p \in Plugin |-> Nothing] /\ strays = {}
  /\ refresh = [r \in Refresh |-> Nothing] /\ stopped = {} /\ kills = 0

Open == session % 2 = 1
Installed(p) == installed[p] \notin {Nothing, Gone}
SignedBy(k) == {p \in Plugin : Installed(p) /\ installed[p].signer = k}

\* pluginAllowed: neither revoked nor unsigned in restricted mode.
PluginAllowed(k) == k \notin revoked /\ (restricted => k # Unsigned)
Effective(p) == Installed(p) /\ installed[p].on /\ PluginAllowed(installed[p].signer)

Free == revoking = Nothing
\* The core answers the app while it is not in a command of the app.
Answers == IF revoking = Nothing THEN TRUE ELSE revoking.by # "app"

\* Who commands: the app also starts a refresh, and reports the plugins it
\* turned off once the refresh is over.
NoRefresh == [step |-> "list", want |-> [p \in Plugin |-> 0], source |-> [p \in Plugin |-> 0],
              asked |-> Nothing, answer |-> 0, off |-> {}]
AppUntouched == UNCHANGED <<refresh, stopped>>
TurnedOn(P) ==
  /\ refresh' = [r \in Refresh |-> IF refresh[r] = Nothing THEN Nothing
                                   ELSE [refresh[r] EXCEPT !.off = @ \ P]]
  /\ stopped' = stopped \ P
Refreshing(P, stops) ==
  \E r \in Refresh :
    /\ refresh[r] = Nothing
    /\ refresh' = [x \in Refresh |->
         IF x = r THEN [NoRefresh EXCEPT !.off = IF stops THEN P ELSE {}]
         ELSE IF refresh[x] = Nothing THEN Nothing
         ELSE IF stops THEN refresh[x]
         ELSE [refresh[x] EXCEPT !.off = @ \ P]]
    /\ stopped' = IF stops THEN stopped ELSE stopped \ P
ByTerminal(P, stops) == IF stops THEN AppUntouched ELSE TurnedOn(P)
By(who, P, stops) == IF who = "app" THEN Open /\ Refreshing(P, stops) ELSE ByTerminal(P, stops)
----------------------------------------------------------------------------
(* Commands (one transaction of the vault each; a revocation takes several *)
(* writes).                                                                *)

MayReplace(p, k) ==
  /\ installed[p] # Gone
  /\ Installed(p) =>
       /\ installed[p].revision < MaxRevision
       /\ installed[p].signer \in {Unsigned, k}

\* The terminal says whether the plugin is on; from the app an update keeps
\* what it was, and a new plugin is off.
InstallPlugin(who) ==
  /\ Free
  /\ \E p \in Plugin, k \in Signer \cup {Unsigned}, enable \in BOOLEAN :
       /\ PluginAllowed(k) /\ MayReplace(p, k)
       /\ who = "app" => enable = (Installed(p) /\ installed[p].on)
       /\ installed' = [installed EXCEPT ![p] =
            [signer |-> k, on |-> enable,
             revision |-> IF Installed(p) THEN installed[p].revision + 1 ELSE 1]]
       /\ off' = IF enable THEN off \ {p} ELSE off \cup {p}
       /\ By(who, {p}, ~enable)
  /\ UNCHANGED <<restricted, revoked, revoking, unfinished, session, host, kills>>

SetPluginEnabled(who) ==
  /\ Free
  /\ \E p \in Plugin, on \in BOOLEAN :
       /\ Installed(p) /\ installed[p].on # on
       /\ on => PluginAllowed(installed[p].signer)
       /\ installed' = [installed EXCEPT ![p].on = on]
       /\ off' = IF on THEN off \ {p} ELSE off \cup {p}
       /\ By(who, {p}, ~on)
  /\ UNCHANGED <<restricted, revoked, revoking, unfinished, session, host, kills>>

RemovePlugin(who) ==
  /\ Free
  /\ \E p \in Plugin :
       /\ Installed(p)
       /\ installed' = [installed EXCEPT ![p] = Gone]
       /\ off' = off \ {p}
       /\ By(who, {p}, TRUE)
  /\ UNCHANGED <<restricted, revoked, revoking, unfinished, session, host, kills>>

SetPluginRestrictedMode(who) ==
  /\ Free
  /\ restricted' = ~restricted
  /\ By(who, SignedBy(Unsigned), restricted')
  /\ UNCHANGED <<installed, revoked, revoking, off, unfinished, session, host, kills>>

\* A slip: only the plugin the owner named is turned off.
OnlyTheNamed(p) == {p}

\* Every plugin of the same signer that is on.
ToDisable(p) == {q \in SignedBy(installed[p].signer) : installed[q].on}

RevokePluginSigner(who) ==
  /\ Free
  /\ IF who = "app" THEN Open /\ \E r \in Refresh : refresh[r] = Nothing ELSE TRUE
  /\ \E p \in Plugin :
       /\ Installed(p) /\ installed[p].signer # Unsigned
       /\ revoked' = revoked \cup {installed[p].signer}
       /\ revoking' = [by |-> who, signer |-> installed[p].signer, left |-> ToDisable(p)]
       /\ off' = off \cup SignedBy(installed[p].signer)
  /\ UNCHANGED <<installed, restricted, unfinished, session, host, refresh, stopped, kills>>

DisableSigned ==
  /\ revoking # Nothing
  /\ \E p \in revoking.left :
       /\ installed' = [installed EXCEPT ![p].on = FALSE]
       /\ revoking' = [revoking EXCEPT !.left = @ \ {p}]
  /\ UNCHANGED <<restricted, revoked, off, unfinished, session, host, refresh, stopped, kills>>

EndRevocation ==
  /\ revoking # Nothing /\ revoking.left = {}
  /\ IF revoking.by = "app" THEN Refreshing(SignedBy(revoking.signer), TRUE)
                            ELSE AppUntouched
  /\ revoking' = Nothing /\ unfinished' = unfinished \ {revoking.signer}
  /\ UNCHANGED <<installed, restricted, revoked, off, session, host, kills>>

\* Without "cutoff" nobody restores a signer with plugins that its revocation was cut
\* off from turning off.
RestorePluginSigner(who) ==
  /\ Free
  /\ \E k \in revoked :
       /\ k \in unfinished /\ "cutoff" \notin Overlap => \A p \in SignedBy(k) : ~installed[p].on
       /\ revoked' = revoked \ {k} /\ unfinished' = unfinished \ {k}
       /\ By(who, {p \in SignedBy(k) : installed[p].on}, FALSE)
  /\ UNCHANGED <<installed, restricted, revoking, off, session, host, kills>>

\* A terminal killed in a revocation has written the policy.
TerminalDies ==
  /\ revoking # Nothing /\ revoking.by = "terminal" /\ kills < MaxKills
  /\ revoking' = Nothing /\ kills' = kills + 1
  /\ unfinished' = unfinished \cup {revoking.signer}
  /\ UNCHANGED <<installed, restricted, revoked, off, session, host, refresh, stopped>>
----------------------------------------------------------------------------
(* A refresh of the app. *)

OpenPlugins ==
  /\ Open /\ Answers
  /\ \E r \in Refresh :
       refresh[r] = Nothing /\ refresh' = [refresh EXCEPT ![r] = NoRefresh]
  /\ UNCHANGED <<vault, session, host, stopped, kills>>

Reached(r, step) == refresh[r] # Nothing /\ refresh[r].step = step
Proceed(r, c) == refresh' = [refresh EXCEPT ![r] = c]

Wanted(r) == {p \in Plugin : refresh[r].want[p] > 0}

List(r) ==
  /\ Reached(r, "list") /\ Open /\ Answers
  /\ Proceed(r, [refresh[r] EXCEPT !.step = "fetch",
       !.want = [p \in Plugin |-> IF Effective(p) THEN installed[p].revision ELSE 0]])
  /\ UNCHANGED <<vault, session, host, stopped, kills>>

Fetch(r) ==
  /\ Reached(r, "fetch") /\ Open /\ Answers
  /\ \E p \in Wanted(r) :
       /\ refresh[r].source[p] = 0 /\ Installed(p)
       /\ Proceed(r, [refresh[r] EXCEPT !.source[p] = installed[p].revision])
  /\ UNCHANGED <<vault, session, host, stopped, kills>>

\* A locked vault or a plugin that is gone: the refresh throws.
RefreshFails(r) ==
  /\ refresh[r] # Nothing
  /\ IF Open THEN Reached(r, "fetch") /\ \E p \in Wanted(r) : refresh[r].source[p] = 0 /\ ~Installed(p)
             ELSE refresh[r].step \in {"list", "fetch"}
  /\ Proceed(r, Nothing)
  /\ UNCHANGED <<vault, session, host, stopped, kills>>

\* A slip: what is no longer wanted is left, only another revision is retired.
OldRevision(r, p) ==
  /\ running[p] # Nothing /\ refresh[r].want[p] > 0
  /\ running[p].revision # refresh[r].want[p]

\* Not on, or another revision.
Unwanted(r, p) == running[p] # Nothing /\ running[p].revision # refresh[r].want[p]

StopUnwanted(r) ==
  /\ Reached(r, "fetch") /\ \A p \in Wanted(r) : refresh[r].source[p] > 0
  /\ running' = [p \in Plugin |-> IF Unwanted(r, p) THEN Nothing ELSE running[p]]
  /\ Proceed(r, [refresh[r] EXCEPT !.step = "start"])
  /\ UNCHANGED <<vault, session, strays, stopped, kills>>

\* A slip: the revision is not compared.
LetsAnyRevision(p, revision) == Open /\ Effective(p)

\* The core lets the revision the app listed run, if it still is the one.
LetsRun(p, revision) == Open /\ Effective(p) /\ installed[p].revision = revision

\* What is in the table is passed over; the authorization of the others names
\* the session it was given in.
Authorize(r) ==
  /\ Reached(r, "start") /\ refresh[r].asked = Nothing /\ Answers
  /\ \E p \in Wanted(r) :
       Proceed(r, IF running[p] # Nothing
                    THEN [refresh[r] EXCEPT !.want[p] = 0]
                    ELSE [refresh[r] EXCEPT !.asked = p,
                            !.answer = IF LetsRun(p, refresh[r].want[p]) THEN session ELSE 0])
  /\ UNCHANGED <<vault, session, host, stopped, kills>>

\* Whatever the table holds by now is replaced, and its worker runs on.
Start(r) ==
  /\ Reached(r, "start") /\ refresh[r].asked # Nothing
  /\ LET p == refresh[r].asked
         entry == [worker |-> refresh[r].answer > 0, revision |-> refresh[r].want[p],
                   source |-> refresh[r].source[p], session |-> refresh[r].answer]
     IN /\ running' = [running EXCEPT ![p] = entry]
        /\ strays' = IF running[p] # Nothing /\ running[p].worker
                       THEN strays \cup {<<p, running[p]>>} ELSE strays
  /\ Proceed(r, [refresh[r] EXCEPT !.asked = Nothing, !.want[refresh[r].asked] = 0])
  /\ UNCHANGED <<vault, session, stopped, kills>>

\* The app reports what it turned off as stopped.
EndRefresh(r) ==
  /\ Reached(r, "start") /\ refresh[r].asked = Nothing /\ Wanted(r) = {}
  /\ stopped' = stopped \cup refresh[r].off
  /\ Proceed(r, Nothing)
  /\ UNCHANGED <<vault, session, host, kills>>
----------------------------------------------------------------------------
(* Workers. *)

\* A crash, a missed heartbeat, a call too many: the worker ends, its entry
\* stays.
PluginFails ==
  /\ \E p \in Plugin :
       /\ running[p] # Nothing /\ running[p].worker
       /\ running' = [running EXCEPT ![p].worker = FALSE]
  /\ UNCHANGED <<vault, session, strays, refresh, stopped, kills>>

\* Locking drops every authorization, and the host its table.
LockVault ==
  /\ Open /\ session \div 2 < MaxLocks /\ Answers
  /\ session' = session + 1
  /\ running' = [p \in Plugin |-> Nothing]
  /\ UNCHANGED <<vault, strays, refresh, stopped, kills>>

UnlockVault ==
  /\ ~Open /\ session' = session + 1
  /\ UNCHANGED <<vault, host, refresh, stopped, kills>>

PluginsNext ==
  \/ \E who \in Who :
       \/ InstallPlugin(who) \/ SetPluginEnabled(who) \/ RemovePlugin(who)
       \/ SetPluginRestrictedMode(who) \/ RevokePluginSigner(who) \/ RestorePluginSigner(who)
  \/ DisableSigned \/ EndRevocation \/ TerminalDies \/ OpenPlugins
  \/ \E r \in Refresh :
       \/ List(r) \/ Fetch(r) \/ RefreshFails(r) \/ StopUnwanted(r)
       \/ Authorize(r) \/ Start(r) \/ EndRefresh(r)
  \/ PluginFails \/ LockVault \/ UnlockVault

PluginsSpec == PluginsInit /\ [][PluginsNext]_pluginsVars
----------------------------------------------------------------------------
Workers ==
  strays \cup {<<p, running[p]>> : p \in {q \in Plugin : running[q] # Nothing /\ running[q].worker}}

\* The core serves a worker's call if it gave the authorization in this
\* session and the plugin, read anew, still may run at that revision.
Serves(p, entry) == entry.session = session /\ LetsRun(p, entry.revision)

\* A plugin that was turned off, or whose signer was revoked, runs again only
\* when the owner turns it on, from the moment the policy names the signer: not
\* when a revocation is cut off, the signer is restored, restricted mode ends or
\* the plugin is updated (documents.ts:2211-2228, App.tsx:848).
StaysOff == \A p \in off : ~Effective(p)

\* A worker that can reach the vault runs the source of the installed revision,
\* whatever the terminal installed while the app listed the plugins, fetched
\* their sources and had them authorized (refreshPlugins, plugin_call).
OnlyInstalledCode ==
  \A w \in Workers : Serves(w[1], w[2]) => installed[w[1]].revision = w[2].source

\* When the app reports a plugin as stopped, no worker runs it until it is
\* turned on again (PluginHost.sync, togglePlugin, revokePluginSigner).
StopsWhatIsOff == \A w \in Workers : w[1] \notin stopped
=============================================================================

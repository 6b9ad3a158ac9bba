----------------------------- MODULE ThemeStore ------------------------------
(***************************************************************************)
(* The theme of the panel (theme/theme.ts, hooks/useTheme.ts): a store in  *)
(* each tab of the browser, the preference the tabs share in the browser's *)
(* storage, the system's own dark mode, and the two events that tell a tab *)
(* of a change: "storage", of another tab, and "change", of the system.    *)
(***************************************************************************)
EXTENDS Integers

CONSTANTS Tabs,      \* tabs of one browser
          MaxOps,    \* bound: choices and changes of the system
          Nothing    \* null

VARIABLES srv, ui, net
vars == <<srv, ui, net>>

ThemePreference == {"system", "light", "dark"}
ResolvedTheme == {"light", "dark"}
ThemeState == [preference: ThemePreference, resolved: ResolvedTheme]

\* srv is the browser: its storage, which may hold anything or be forbidden, and
\* the system's dark mode.  A tab that has drawn its theme listens a little later.
TypeOK ==
  /\ srv \in [stored: ThemePreference \cup {Nothing}, blocked: BOOLEAN, dark: BOOLEAN]
  /\ ui \in [Tabs -> [state: ThemeState \cup {Nothing}, root: ThemeState \cup {Nothing},
                      listens: BOOLEAN, missed: BOOLEAN]]
  /\ net.storage \subseteq Tabs /\ net.change \subseteq Tabs /\ net.ops \in 0..MaxOps

Init ==
  /\ srv \in [stored: {Nothing, "light"}, blocked: BOOLEAN, dark: {FALSE}]
  /\ ui = [t \in Tabs |-> [state |-> Nothing, root |-> Nothing, listens |-> FALSE, missed |-> FALSE]]
  /\ net = [storage |-> {}, change |-> {}, ops |-> 0]

-----------------------------------------------------------------------------
nextThemePreference(p) ==
  CASE p = "system" -> "light" [] p = "light" -> "dark" [] p = "dark" -> "system"
resolveTheme(p, dark) == IF p # "system" THEN p ELSE IF dark THEN "dark" ELSE "light"
readStoredPreference == IF srv.blocked \/ srv.stored = Nothing THEN "system" ELSE srv.stored

compute(p) == [preference |-> p, resolved |-> resolveTheme(p, srv.dark)]
\* The document is painted even when nothing changed.
commit(tab, next) == [tab EXCEPT !.state = next, !.root = next]

Open(t) ==
  /\ ui[t].state = Nothing
  /\ ui' = [ui EXCEPT ![t] = commit(@, compute(readStoredPreference))]
  /\ UNCHANGED <<srv, net>>
Listen(t) ==
  /\ ui[t].state # Nothing /\ ~ui[t].listens
  /\ ui' = [ui EXCEPT ![t].listens = TRUE]
  /\ UNCHANGED <<srv, net>>

\* One click of the toggle; the other tabs are told of what was stored.
Cycle(t) ==
  /\ ui[t].listens /\ net.ops < MaxOps
  /\ LET p == nextThemePreference(ui[t].state.preference)
     IN /\ ui' = [ui EXCEPT ![t] = commit(@, compute(p))]
        /\ srv' = IF srv.blocked THEN srv ELSE [srv EXCEPT !.stored = p]
        /\ net' = [net EXCEPT !.ops = @ + 1,
                              !.storage = IF srv.blocked \/ srv.stored = p THEN @ ELSE @ \cup (Tabs \ {t})]

\* The storage is emptied, the system's mode changes.
ClearStorage ==
  /\ ~srv.blocked /\ srv.stored # Nothing /\ net.ops < MaxOps
  /\ srv' = [srv EXCEPT !.stored = Nothing]
  /\ net' = [net EXCEPT !.storage = Tabs, !.ops = @ + 1]
  /\ UNCHANGED ui
SystemChanges ==
  /\ net.ops < MaxOps
  /\ srv' = [srv EXCEPT !.dark = ~@]
  /\ net' = [net EXCEPT !.change = Tabs, !.ops = @ + 1]
  /\ UNCHANGED ui

\* An event that finds a drawn tab not yet listening is lost.
Lost(t) == [ui EXCEPT ![t].missed = @ \/ ui[t].state # Nothing]
onStorage(t) ==
  /\ t \in net.storage
  /\ ui' = IF ui[t].listens THEN [ui EXCEPT ![t] = commit(@, compute(readStoredPreference))] ELSE Lost(t)
  /\ net' = [net EXCEPT !.storage = @ \ {t}]
  /\ UNCHANGED srv
onSystemChange_Always(t) ==
  /\ t \in net.change
  /\ ui' = IF ui[t].listens THEN [ui EXCEPT ![t] = commit(@, compute("system"))] ELSE Lost(t)
  /\ net' = [net EXCEPT !.change = @ \ {t}]
  /\ UNCHANGED srv
onSystemChange(t) ==
  /\ t \in net.change
  /\ ui' = IF ~ui[t].listens THEN Lost(t)
           ELSE IF ui[t].state.preference = "system" THEN [ui EXCEPT ![t] = commit(@, compute("system"))]
           ELSE ui
  /\ net' = [net EXCEPT !.change = @ \ {t}]
  /\ UNCHANGED srv

Next ==
  \/ \E t \in Tabs : Open(t) \/ Listen(t) \/ Cycle(t) \/ onStorage(t) \/ onSystemChange(t)
  \/ ClearStorage \/ SystemChanges

Spec == Init /\ [][Next]_vars

-----------------------------------------------------------------------------
(* Properties                                                              *)

\* Once its events are delivered, a tab shows the preference all tabs share, as
\* the system's mode resolves it, whatever the order of the choices of two tabs:
\* except what changed between its first drawing and its listening, and except
\* the choice of one tab where the storage is forbidden.
ThemeIsCurrent ==
  \A t \in Tabs :
    ui[t].state # Nothing /\ ~ui[t].missed /\ t \notin net.storage \cup net.change =>
      /\ ui[t].root = compute(ui[t].state.preference)
      /\ srv.blocked \/ ui[t].state.preference = readStoredPreference
=============================================================================

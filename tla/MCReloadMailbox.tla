--------------------------- MODULE MCReloadMailbox ---------------------------
(* Two versions of the sources and of the recipients; two of the rules, and a *)
(* third that differs from the second in its target price only.             *)
EXTENDS ReloadMailbox, TLC

CONSTANTS Edits, Locks, Refusals, Disconnects, Crashes

MCHashed == "r1" :> "r1" @@ "r2" :> "r2" @@ "r2target" :> "r2"
MCBudget == "edit" :> Edits @@ "lock" :> Locks @@ "refuse" :> Refusals
            @@ "disconnect" :> Disconnects @@ "crash" :> Crashes
=============================================================================

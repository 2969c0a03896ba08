------------------------------- MODULE DiscordMgr -------------------------------
(*************************************************************************)
(* The commands of the bot together: the events about players and the    *)
(* ones about roles are handled by the same shard threads, one at a time *)
(* per thread, so a handler that waits for the database holds up the     *)
(* buttons as well.                                                      *)
(*************************************************************************)
EXTENDS GuildPlayers, ConfirmButtons

botAndButtonVars == <<vars, buttonVars>>

BotTypeOK == TypeOK /\ ButtonsTypeOK

BotInit == Init /\ ButtonsInit

\* on_slashcommand for check-roles, on_button_click: handled where a shard is idle.
HandleButtons == /\ ~undefined /\ main # "exited"
                 /\ \E t \in Threads : stage[t] = "idle"
                 /\ ButtonsNext
                 /\ UNCHANGED vars

BotNext == \/ Next /\ UNCHANGED buttonVars
           \/ HandleButtons

BotSpec == BotInit /\ [][BotNext]_botAndButtonVars

\* The worker executes what is queued, threads go on, the main loop goes round.
BotFairness ==
    /\ WF_botAndButtonVars(~undefined /\ Execute /\ UNCHANGED buttonVars)
    /\ WF_botAndButtonVars(~undefined /\ Main /\ UNCHANGED buttonVars)
    /\ \A t \in Threads : WF_botAndButtonVars(~undefined /\ Thread(t) /\ UNCHANGED buttonVars)
===============================================================================

-------------------------------- MODULE MCMail --------------------------------
(***************************************************************************)
(* Outgoing and incoming mail and reminders in six settings: one message   *)
(* with its undo requests and retries; two clicks on Send; the poller      *)
(* alone; the poller and the webhook; two tabs that change a reminder      *)
(* beside one sweep; two sweeps over two reminders, with failures.         *)
(***************************************************************************)
EXTENDS OutboundMail, MailIntake, MailReminders

CONSTANTS m1, m2,    \* outgoing messages
    key,             \* an idempotency key
    first, answer,   \* incoming messages
    t1, t2,          \* mail threads
    HookInstant,     \* bound: time in the setting with the webhook
    HookTroubles,    \* bound: its failures and restarts
    BounceInstant    \* bound: time in the setting of the poller with a bounce

MCReplyTo == [m \in Mail |-> IF m = answer THEN first ELSE NoMail]
MCSplit == [m \in Mail |-> m]
MCShared == [m \in Mail |-> first]

VARIABLE setting

mailVarsAll == <<outVars, inVars, remVars, setting>>

MCInit ==
    /\ OutInit /\ IntakeInit /\ RemInit
    /\ setting \in {"undo", "keys", "poll", "hook", "tabs", "sweeps"}
    /\ <<kind[first], kind[answer]>> \in
          IF setting = "poll"
          THEN {<<"email", "email">>, <<"bounce", "refused">>}
          ELSE {<<"email", "email">>}

\* The reminders: one on t1 that requests change, then another that only the sweep does.
Reminding ==
    /\ RemNext /\ UNCHANGED <<outVars, inVars>>
    /\ reachable' => reachable
    /\ reminder'[2] # NoReminder => reminder'[1].thread = t1
    /\ \A q \in Requests : request'[q].row # 2

MCNext ==
    /\ UNCHANGED setting
    /\ CASE setting = "undo" ->
              /\ OutNext /\ UNCHANGED <<inVars, remVars>>
              /\ message'[m2] = NoMessage /\ \A c \in Clicks : c > 1 => click'[c] = IdleClick
         [] setting = "keys" ->
              /\ OutNext /\ UNCHANGED <<inVars, remVars>> /\ cancel' = cancel
              /\ \A m \in Messages : attempt'[m] <= 1
              /\ message'[m2] # NoMessage => message'[m1] # NoMessage
         [] setting = "poll" ->
              /\ IntakeNext /\ UNCHANGED <<outVars, remVars>>
              /\ receiver'["hook"] = IdleReceiver /\ acted' \subseteq {answer}
              /\ kind[first] = "bounce" => instant' <= BounceInstant
         [] setting = "hook" ->
              /\ IntakeNext /\ UNCHANGED <<outVars, remVars>>
              /\ instant' <= HookInstant /\ troubles' <= HookTroubles
         [] setting = "tabs" ->
              /\ Reminding
              /\ sweeper'[2] = NoTick /\ reminder'[2].thread # t2 /\ failures' = 0
         [] setting = "sweeps" ->
              /\ Reminding
              /\ request'[2] = NoRequest /\ request'[1].op # "update"
              /\ reminder'[2].thread # t1

\* The fairness of each module in its settings; in the others nothing of it is enabled, except
\* that the poller and the sweeps do not run.
Outgoing == setting \in {"undo", "keys"}
Sweeping(p) == setting = "sweeps" \/ (setting = "tabs" /\ p = 1)

MCFairness ==
    /\ \A m \in Messages :
          WF_outVars(Outgoing /\ (WindowCloses(m) \/ \E a \in Attempts : TaskSteps(m, a)))
    /\ WF_inVars(setting \in {"poll", "hook"} /\ Poll)
    /\ WF_inVars(setting = "hook" /\ Store("hook"))
    /\ \A r \in Reminders : WF_remVars(setting \in {"tabs", "sweeps"} /\ DateArrives(r))
    /\ \A p \in Processes : WF_remVars(Sweeping(p) /\ Sweep(p))

MCSpec == MCInit /\ [][MCNext]_mailVarsAll /\ MCFairness

\* The poller alone stores a reply and its original one after the other.
PolledRepliesFindTheirThread == setting = "poll" => RepliesFindTheirThread
=============================================================================

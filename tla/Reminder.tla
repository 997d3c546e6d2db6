------------------------------ MODULE Reminder ------------------------------
(***************************************************************************)
(* The reminders of docs/howto/reminder: three emails with durable sleeps  *)
(* between them.  The address is left out.                                 *)
(***************************************************************************)
EXTENDS Continuation

CONSTANTS InitialDelay, FollowUpDelay

ReminderKeys == {"SendInitial", "SendFollowUp", "SendFinal"}

InitialInput   == [reminder |-> "reminder.initial"]
FollowUpInput  == [reminder |-> "reminder.follow-up"]
FinalInput     == [reminder |-> "reminder.final"]
ReminderInputs == {InitialInput, FollowUpInput, FinalInput}

SendInitial  == Return(NewContext, After(InitialDelay, "SendFollowUp", FollowUpInput), Nil)
SendFollowUp == Return(NewContext, After(FollowUpDelay, "SendFinal", FinalInput), Nil)
SendFinal    == Return(NewContext, Done(Unit), Nil)

ReminderRunner(k, x, m) ==
  CASE k = "SendInitial" /\ x = InitialInput -> {SendInitial}
    [] k = "SendFollowUp" /\ x = FollowUpInput -> {SendFollowUp}
    [] k = "SendFinal" /\ x = FinalInput -> {SendFinal}
    [] OTHER -> {Fail(NewContext)}

=============================================================================

---------------------------- MODULE MCRecurring ----------------------------
(* A small instance of Recurring for TLC: days of two instants, weeks of two  *)
(* days, and a task on each of them.                                          *)
EXTENDS Recurring, TLC

Weekly == [kind |-> "weekly_days", every |-> 1, time |-> 0, days |-> {0, 1}]

MCSchedules == {Weekly}
Nothing == [schedule |-> NoSchedule, overlap |-> {}, active |-> {}]
MCEdits == {[Nothing EXCEPT !.schedule = Weekly], [Nothing EXCEPT !.overlap = {TRUE}],
            [Nothing EXCEPT !.active = {FALSE}]}
=============================================================================

-------------------------- MODULE MCAlarmReporter --------------------------
(* Two alarm threads and a car thread share Winsock. *)
EXTENDS AlarmReporter

CONSTANTS alarm1, alarm2, car1

MCAlarmThreads == {alarm1, alarm2}
MCCarThreads == {car1}

=============================================================================

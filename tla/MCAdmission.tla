----------------------------- MODULE MCAdmission -----------------------------
(* Instances of Admission for TLC: what users try to write. *)
EXTENDS Admission

Names == {"", "a", "b", "eu", "nowhere"}
ListedRegions == {"eu"}

SpecOf(cluster, nodegroup, region, interval, cron) ==
  [clusterName |-> cluster, nodeGroupName |-> nodegroup, region |-> region,
   checkInterval |-> interval, startAfter |-> "", scheduleCron |-> cron,
   scheduleTimezone |-> ""]

OnCron     == SpecOf("a", "a", "eu", "", "valid")
Bare       == SpecOf("a", "a", "eu", "", "")        \* the defaults decide
Timed      == SpecOf("a", "a", "eu", "valid", "")
Renamed    == SpecOf("a", "b", "eu", "valid", "")
Elsewhere  == SpecOf("b", "a", "eu", "", "valid")
NoRegion   == SpecOf("a", "a", "nowhere", "", "valid")
Nameless   == SpecOf("a", "", "eu", "", "valid")
BadCron    == SpecOf("a", "a", "eu", "", "garbled")
BadStart   == [OnCron EXCEPT !.startAfter = "garbled"]

AllSpecs == {OnCron, Bare, Renamed, Elsewhere, NoRegion, Nameless, BadCron, BadStart}
Careful == {OnCron, Timed}
Careless == {OnCron, BadCron}
=============================================================================

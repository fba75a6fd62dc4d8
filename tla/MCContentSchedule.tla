-------------------------- MODULE MCContentSchedule --------------------------
(***************************************************************************)
(* The instances are in schedule.cfg and schedule_v_clobber.cfg.           *)
(***************************************************************************)
EXTENDS ContentSchedule

=============================================================================

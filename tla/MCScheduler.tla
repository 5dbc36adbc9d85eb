----------------------------- MODULE MCScheduler -----------------------------
(* Who changes the files: the API alone, people who write what decodes, or  *)
(* anybody anything.                                                        *)
EXTENDS Scheduler

CONSTANTS h1, h2, r1, r2, daily, weekly

AnyOutsiders == {{}, Contents \ {"undecodable"}, Contents}
=============================================================================

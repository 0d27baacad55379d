------------------------------ MODULE MCXoSyslog ------------------------------
(* The constants of XoSyslog for TLC. *)
EXTENDS XoSyslog

CONSTANTS t1, t2
MCThreads == {t1, t2}
===============================================================================

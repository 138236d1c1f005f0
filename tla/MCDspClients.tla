---------------------------- MODULE MCDspClients ----------------------------
(* The clients of the bridge, for TLC: the inputs of the post-processing    *)
(* element with what may go wrong there, and the ways to build the plugin.  *)
EXTENDS DspClients, TLC

IppConfs ==
  [format : {"UYVY"}, late : BOOLEAN, errors : BOOLEAN, events : {FALSE}]
  \cup {[format |-> "I420", late |-> FALSE, errors |-> FALSE, events |-> e] :
         e \in BOOLEAN}

AllBuilds == [heap : {TRUE}, sm : BOOLEAN]
=============================================================================

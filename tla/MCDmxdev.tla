------------------------------ MODULE MCDmxdev ------------------------------
(* Instances of Dmxdev for TLC *)
EXTENDS Dmxdev

MCParams == { [pid |-> 0, oneshot |-> FALSE, timeout |-> TRUE],
              [pid |-> 0, oneshot |-> TRUE, timeout |-> FALSE],
              [pid |-> 1, oneshot |-> FALSE, timeout |-> FALSE] }
MCWorkloads == { [users |-> {1, 2}, readers |-> {}, sections |-> 2],
                 [users |-> {1}, readers |-> {1}, sections |-> 4] }
=============================================================================

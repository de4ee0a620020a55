------------------------------ MODULE MCCapture ------------------------------
(* Every exception the exporter is built to survive.                        *)
EXTENDS Capture
=============================================================================

--------------------------- MODULE MCIntegrations ---------------------------
(* Integrations on two documents and one event; its constants are plain model *)
(* values, which the configurations give.                                    *)
EXTENDS Integrations
=============================================================================

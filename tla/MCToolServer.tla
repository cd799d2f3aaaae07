---------------------------- MODULE MCToolServer ----------------------------
(* ToolServer with two calls, each of any of the tools.                    *)
EXTENDS ToolServer

=============================================================================

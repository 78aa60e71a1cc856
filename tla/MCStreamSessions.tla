-------------------------- MODULE MCStreamSessions --------------------------
(* A small instance of StreamSessions for TLC.                             *)
EXTENDS StreamSessions

CONSTANT Binance

\* Watching works; it is not supported; nor is it and the price interval is zero.
MCSetting == {[watches |-> {Binance}, panics |-> {}],
              [watches |-> {},        panics |-> {}],
              [watches |-> {},        panics |-> {"price"}]}

=============================================================================

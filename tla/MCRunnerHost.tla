---------------------------- MODULE MCRunnerHost ----------------------------
(* One runner, one session and one channel: two chunks of it may join into one
   line, and channels share nothing but the end of their session. *)
EXTENDS RunnerHost

CONSTANT s1

MCSession == {s1}
MCChannels == <<"stdout">>
MCMaxChunk == [c \in {"stdout"} |-> 2]
=============================================================================

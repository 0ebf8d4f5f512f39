--------------------------- MODULE MCPassthrough ---------------------------
(* Requests to two ESCs with two blocks of data, one of which looks like the
   escape byte. *)
EXTENDS Passthrough

MCRequests ==
    {Request(cmd.InitFlash, 0, 0, <<p>>, -1) : p \in {0, 1}}
    \cup {Request(cmd.Reset, 0, 1, <<p>>, -1) : p \in {0, 9}}
    \cup {Request(cmd.SetMode, 0, 0, <<4>>, -1)}
    \cup {Request(c, 0, 0, <<0>>, -1) : c \in {cmd.TestAlive, cmd.EraseAll, cmd.PageErase, 70}}
    \cup {Request(c, 1, 0, <<1>>, 1) : c \in {cmd.Read, cmd.ReadEEprom}}
    \cup {Request(c, 1, 0, <<Escape>>, 1) : c \in {cmd.Write, cmd.WriteEEprom, cmd.Verify}}
    \cup {Request(c, KeepAddress, 255, <<7>>, -1) : c \in {cmd.Read, cmd.Write}}
=============================================================================

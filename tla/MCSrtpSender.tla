----------------------------- MODULE MCSrtpSender -----------------------------
(***************************************************************************)
(* Small instances of SrtpSender.                                          *)
(***************************************************************************)
EXTENDS SrtpSender

MCVideoOnly == <<"video">>
MCRtxVideo == {{}, {"video"}}
\* NACKs for a number and the one after it, which may or may not be stored.
MCNacks == {<<n, (n + 1) % SeqMod>> : n \in SeqNums}

=============================================================================

-------------------------- MODULE MC_MessageParsing --------------------------
(* Model-checking instance of MessageParsing: the messages the firmware    *)
(* sends, with the header bits it sets, and the transfers built of them.   *)
EXTENDS MessageParsing

\* A host address above EHUB_MIN_VALID_VADDR, and the NULL page.
HighAddr == 1048576
NullAddr == 0

Hdr(rd, wr, reg, id, len, a) ==
  [Read |-> rd, Write |-> wr, RegAccess |-> reg, RequestId |-> id,
   Length |-> len, Address |-> a]

\* The echo of EMBEDDED_REGISTER_Read's command: Read and RegAccess set,
\* ByteEnables 0x0F in the bits the memory command calls Length.
RegResp == [kind |-> "register", hdr |-> Hdr(1, 0, 1, 0, 15, 0)]
\* The device asks for a 16-byte TRB at address a.
ReadReq(a) == [kind |-> "read", hdr |-> Hdr(1, 0, 0, 1, 16, a)]
\* An event TRB from the event manager (request id MEM_WR_TAG_EVT_MGR).
Event == [kind |-> "event", hdr |-> Hdr(0, 1, 0, 0, 16, HighAddr)]
\* A 6-byte memory write from the context manager, padded to 8 bytes.
MemWrite(a) == [kind |-> "write", hdr |-> Hdr(0, 1, 0, 2, 6, a)]
End == [kind |-> "end", hdr |-> ZeroWord]

\* Transfers with at most one read request each.  A padded memory write
\* ends one transfer and is followed by an event TRB in another.
MC_Transfers ==
  { <<RegResp, MemWrite(HighAddr)>>,
    <<ReadReq(HighAddr), Event>>,
    <<Event, End, RegResp>>,
    <<ReadReq(NullAddr), MemWrite(NullAddr), Event>> }

====

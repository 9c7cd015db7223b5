------------------------------ MODULE MCPrefix ------------------------------
(***************************************************************************)
(* Every combination of two Body_Size and two Body_Transfer declarations,  *)
(* a custom header, and prefixes of other implementations: a method nobody *)
(* knows, a key met twice, a number too wide, a value of the wrong kind.   *)
(***************************************************************************)
EXTENDS Prefix, TLC

AllHandles == {"draft", "spare", "prefix", "handler", "job"}
AllKeys == {"Body_Size", "Body_Transfer", "x-custom"}
KeysSorted == ("Body_Size" :> 1) @@ ("Body_Transfer" :> 2) @@ ("x-custom" :> 3)
AllTexts == AllKeys \cup {NoText, "/a", "/b"}
EditValues == {Num(0)}
AllVals == EditValues \cup {Chunked, Num(2), Dec(2), Hex(2), Word, Num(BodyTransferChunked), Num(1)}

SizeDrafts == { ("Body_Size" :> v) : v \in {Num(0), Num(2), Dec(2), Hex(2), Word} }
TransferDrafts == { ("Body_Transfer" :> v) : v \in {Num(BodyTransferChunked), Chunked, Num(1), Word} }
Both == { ("Body_Size" :> v) @@ ("Body_Transfer" :> Chunked) : v \in {Dec(2), Word} }
DraftTables == {EmptyTable, ("x-custom" :> Num(1))} \cup SizeDrafts \cup TransferDrafts \cup Both

TooWide == Value("wide", 70000, NoText, NoVal)
ForeignStreams ==
    { <<Uint(3)>>,
      <<Text("/a")>>,
      <<Uint(64), Nil>>,
      <<Uint(64), Text("/a"), Text("/b")>>,
      <<Uint(64), Text("/a"), MapOf(2), EncodeKey("Body_Size"), EncodeVal(Dec(2)),
        EncodeKey("Body_Size"), EncodeVal(Num(0))>>,
      <<Uint(64), Text("/a"), MapOf(1), EncodeKey("Body_Size"), TooWide>> }
=============================================================================

---------------------------- MODULE MCSvcMacro ----------------------------
(* Every argument form, every refused feature, and argument types up to a  *)
(* depth of three.                                                         *)
EXTENDS SvcMacro

MCChars == {"a", "b", "/", " "}

Texts ==
  {<<"a">>, <<"a", "/", "b">>, <<"/", "a">>, <<"a", "/">>, <<"a", "/", "/", "b">>,
   <<"a", " ">>, << >>}

Arg(name, shape, text, list) == [name |-> name, form |-> shape, text |-> text, list |-> list]

MCArguments ==
  {Arg(name, "string", t, << >>) : name \in {"service", "path"}, t \in Texts}
  \cup {Arg(name, "other", << >>, << >>) : name \in {"service", "services", "service_of", "unknown"}}
  \cup {Arg("services", "array", << >>, l) :
          l \in {<<"S">>, <<"S", "T">>, << >>, <<"S", "S">>, <<"generic">>}}
  \cup {Arg("service_of", "list", << >>, l) : l \in {<<"I">>, << >>, <<"I", "J">>}}

MCItems ==
  [kind \in {"trait", "struct", "impl", "fn"} |->
     {{}} \cup (IF kind = "fn" THEN {} ELSE {{f} : f \in Refused[kind]})]

Life(ty, l) == [ty EXCEPT !.life = l]
Slice(ty) == [kind |-> "slice", name |-> "", life |-> "", mutable |-> FALSE, sub |-> <<ty>>]
ForAll(ty) == [kind |-> "forall", name |-> "fn", life |-> "", mutable |-> FALSE, sub |-> <<ty>>]

Base == {U8, Path("u64", << >>), Path("str", << >>), StringType, Path("Order", << >>)}
Owned == Base \cup {Path("Vec", <<t>>) : t \in Base} \cup {Slice(t) : t \in Base}
         \cup {Path("Vec", <<VecU8>>), Path("Cow", << >>), ForAll(U8)}
         \cup {Life(Path("Cow", << >>), l) : l \in {"f", "_", "static"}}
Types ==
  Owned \cup {RefTo(t) : t \in Owned} \cup {Life(RefTo(t), l) : t \in Base, l \in {"f", "static"}}
  \cup {[RefTo(t) EXCEPT !.mutable = TRUE] : t \in Base}
  \cup {Path("Option", <<t>>) : t \in {U8, RefTo(U8), Life(Path("Cow", << >>), "f")}}
  \cup {RefTo(RefTo(U8))}

Method(name, features, receivers, args, bounds) ==
  [kind |-> "fn", name |-> name, features |-> features, receivers |-> receivers,
   args |-> args, bounds |-> bounds]
Plain(ty) == [name |-> "x", plain |-> TRUE, type |-> ty]
Fine == <<"RpcResult<T>">>

MCMembers ==
  {Method(m, {}, <<"&self">>, <<Plain(t)>>, Fine) : m \in {"get", "put"}, t \in Types}
  \cup {Method("odd", {f}, <<"&self">>, << >>, Fine) : f \in MethodRefused}
  \cup {Method("odd", {}, r, << >>, Fine) :
          r \in {<<"self: &Self">>, << >>, <<"self">>, <<"&mut self">>}}
  \cup {Method("odd", {}, <<"&self">>, <<[name |-> "x", plain |-> FALSE, type |-> U8]>>, Fine)}
  \cup {Method("odd", {}, <<"&self">>, << >>, b) :
          b \in {<<"other", "Result<T, RpcError>">>, << >>, <<"other">>, <<"no output">>,
                 <<"Result<T, Other>">>, <<"RpcResult<T>", "RpcResult<T>">>}}
  \cup {Method("__rpc_dispatch_async", {}, <<"&self">>, << >>, Fine)}
  \cup {[Method(n, f, << >>, << >>, << >>) EXCEPT !.kind = k] :
          k \in {"const", "type", "macro", "verbatim"}, n \in {"C", "SERVICE_PATH"},
          f \in {{}, {"default"}}}
=============================================================================

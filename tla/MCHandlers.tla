----------------------------- MODULE MCHandlers -----------------------------
(***************************************************************************)
(* Demo comes from `scratch new`; its two rpcs want the same file.  Audit  *)
(* is added by hand; its rpc wants server.go.  Bare is Demo once more in    *)
(* another proto package, with an alias that gofmt refuses and a message    *)
(* of a third package in one rpc: what Demo may generate is only warned     *)
(* about for Bare.                                                          *)
(***************************************************************************)
EXTENDS Handlers, TLC

CONSTANTS Demo, Audit, Bare

MCServices == {Demo, Audit, Bare}
MCRpcs == {"HTTPGet", "Http_get", "Server"}
MCOffered == (Demo :> {"HTTPGet", "Http_get"}) @@ (Audit :> {"Server"}) @@ (Bare :> {"HTTPGet", "Http_get"})
MCForeign == [s \in MCServices |-> [r \in MCRpcs |-> s = Bare /\ r = "Http_get"]]
MCPkg == (Demo :> "demo") @@ (Audit :> "audit") @@ (Bare :> "demo")
MCPrintable == {Demo, Audit}

MCGoName == [r \in MCRpcs |-> IF r = "Http_get" THEN "HttpGet" ELSE r]
MCFileName == [n \in {"HTTPGet", "HttpGet", "Server"} |->
                 IF n = "Server" THEN "server.go" ELSE "http_get.go"]
MCFiles == {"server.go", "http_get.go", "other.go"}
=============================================================================

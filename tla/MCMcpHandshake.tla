---------------------------- MODULE MCMcpHandshake -----------------------------
(* Instances of McpHandshake: the menus a client may ask for.                  *)
EXTENDS McpHandshake

Entry(n, t) == [name |-> n, transport |-> t, sound |-> TRUE]

\* Well-formed menus, and one each of: an unknown transport, a bad name, a duplicate, a bad url.
AllMenus == { <<Entry("a", "stdio"), Entry("b", "http"), Entry("c", "http")>>, <<Entry("a", "sse"), Entry("b", "stdio")>>,
              <<Entry("a", "stdio"), Entry("b", "acp")>>, <<Entry("a", "stdio"), Entry("", "http")>>,
              <<Entry("a", "stdio"), Entry("a", "http")>>,
              <<[name |-> "a", transport |-> "http", sound |-> FALSE]>> }
================================================================================

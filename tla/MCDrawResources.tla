---------------------------- MODULE MCDrawResources ----------------------------
EXTENDS DrawResources

CONSTANTS here, there, ink

(* One tab page with a full pool, or two with fewer floats. *)
MCEditors == {[tabs |-> {1}, ids |-> {1, 2, 3}, frames |-> 2],
              [tabs |-> {1, 2}, ids |-> {1, 2}, frames |-> 1]}

MCFrames ==
  LET frame(clears, policy, places) ==
        [clears |-> clears, policy |-> policy,
         spans |-> [i \in DOMAIN places |-> [at |-> places[i], text |-> ink]]]
  IN {frame(TRUE, "reuseOnly", <<>>), frame(TRUE, "bootstrap", <<here>>),
      frame(TRUE, "reuseOnly", <<there, here>>), frame(FALSE, "reuseOnly", <<there>>)}

(* One of the first two floats resists one call, or cannot be taken down.    *)
MCFailures ==
  {{}} \cup UNION {{{<<"config", h>>}, {<<"extmark", h>>}, {<<"delete", h>>}, {<<"open", h>>},
                    {<<"close", h>>, <<"delete", h>>}, {<<"init", h>>, <<"close", h>>},
                    {<<"extmark", h>>, <<"close", h>>, <<"delete", h>>}} : h \in {1, 2}}
=============================================================================

-------------------------- MODULE MCResponseStream --------------------------
EXTENDS ResponseStream

MCKinds == {k \in [head : BOOLEAN, http10 : BOOLEAN, declared : {Unknown, 2, 4}, headLen : {1, 3},
                   headers : {"fit", "long", "throw"}, expect : BOOLEAN, async : BOOLEAN] :
              /\ k.headers # "fit" \/ k.expect => ~k.http10 /\ k.declared \in {Unknown, 4}
              /\ k.headers # "fit" => ~k.head /\ k.headLen = 1 /\ k.declared = Unknown
              /\ k.headers # "throw" => ~k.async}
=============================================================================

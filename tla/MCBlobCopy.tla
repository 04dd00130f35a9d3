----------------------------- MODULE MCBlobCopy -----------------------------
(* Blobs of three bytes and of none; chunks of two bytes.                  *)
EXTENDS BlobCopy

Blob3 == <<1, 2, 3>>

\* BlobPut of a file: the descriptor is right, wrong or not known.
PutCall(blob, dig, size, seeker, mounts, min, maxPut, empty) ==
    [op |-> "put", blob |-> blob, dig |-> dig, size |-> size, seeker |-> seeker,
     sameReg |-> FALSE, urls |-> FALSE, exists |-> FALSE, mounts |-> mounts,
     min |-> min, maxPut |-> maxPut, empty |-> empty]

\* BlobCopy: the source has what the descriptor says, or something else.
CopyCall(dig, sameReg, urls, exists, mounts, maxPut, empty) ==
    [op |-> "copy", blob |-> Blob3, dig |-> dig, size |-> 3, seeker |-> TRUE,
     sameReg |-> sameReg, urls |-> urls, exists |-> exists, mounts |-> mounts,
     min |-> 0, maxPut |-> maxPut, empty |-> empty]

Habits == {"zero", "none"}

MCCalls ==
    {PutCall(Blob3, Blob3, 3, s, FALSE, m, p, e) : s \in BOOLEAN, m \in {0, 3, 9}, p \in {-1, 1}, e \in Habits}
    \cup {PutCall(Blob3, NoDig, 0, FALSE, FALSE, 0, -1, e) : e \in Habits}
    \cup {PutCall(Blob3, d, n, TRUE, TRUE, 0, p, "none") : d \in {Blob3, <<9>>}, n \in {2, 4}, p \in {-1, 1}}
    \cup {PutCall(<<>>, d, 0, TRUE, FALSE, 0, -1, "none") : d \in {<<>>, NoDig}}
    \cup {CopyCall(d, s, u, x, m, p, "zero") :
            d \in {Blob3, <<9>>}, s \in BOOLEAN, u \in BOOLEAN, x \in BOOLEAN,
            m \in BOOLEAN, p \in {-1, 1}}
=============================================================================

------------------------------ MODULE MCUploads ------------------------------
(* Instances of Uploads for TLC. *)
EXTENDS Uploads, TLC

CONSTANTS r1, r2, r3, w1, w2, fa, fb, fc, fx

File(ext, body) == [ext |-> ext, body |-> body, where |-> "inside", size |-> "small"]

Broken == fa :> File("pdf", "text") @@ fb :> File("docx", "broken") @@ fc :> File("txt", "text") @@ fx :> File("exe", "text")
BrokenPdf == fa :> File("html", "text") @@ fb :> File("pdf", "broken") @@ fc :> File("htm", "text") @@ fx :> File("exe", "text")
Blank == fa :> File("md", "text") @@ fb :> File("docx", "blank") @@ fc :> [File("txt", "text") EXCEPT !.size = "big"]
         @@ fx :> File("exe", "text")

Ask(path, files) == [long |-> FALSE, token |-> "right", path |-> path, files |-> files]

Refusals == { Ask("outside", <<>>), Ask("file", <<>>), Ask("file", <<fc>>), Ask("file", <<fx>>),
              Ask("folder", <<fa, fb, fa, fb>>),
              [Ask("file", <<fa>>) EXCEPT !.long = TRUE],
              [Ask("file", <<fa>>) EXCEPT !.token = "wrong"],
              [Ask("file", <<fa>>) EXCEPT !.token = "unset"] }

\* A folder beside single uploads of its files, with files of every kind; and
\* refusals of every kind beside two uploads.
Mixes ==
    [disk : {Broken, BrokenPdf, Blank},
     asks : { r1 :> Ask("folder", <<fa, fb, fx, fc>>) @@ r2 :> Ask("file", <<fb>>) @@ r3 :> Ask("file", <<fa>>) }]
    \cup
    [disk : {Blank},
     asks : { r1 :> Ask("file", <<fa>>) @@ r2 :> x @@ r3 :> Ask("file", <<fa>>) : x \in Refusals }]

=============================================================================

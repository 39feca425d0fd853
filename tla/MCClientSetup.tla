---------------------------- MODULE MCClientSetup ----------------------------
(* Instances of ClientSetup for TLC: every file of up to two lines, and    *)
(* configurations with and without each setting.                           *)
EXTENDS ClientSetup

FoundLines ==
  {Header("Preferences"), Header("BitTorrent"), Comment,
   Entry("Enabled", "true"), Entry("Port", "8099"), Spaced("Port", "8099"),
   Entry("Port", "auto"), Entry("Locale", "en")}

SmallDocuments == BoundedSeq(FoundLines, 2)

SmallTexts ==
  {Empty, [url |-> "8099", password |-> "secret", dsn |-> "own"],
   [url |-> "remote", path |-> "old"], [dsn |-> "", path |-> "old"], [dsn |-> "", path |-> ""]}
=============================================================================

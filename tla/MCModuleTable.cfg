SPECIFICATION FairSpec
CONSTANTS
  Versions = {1, 2}
  Files = {"a.json", "b.json", "c.json", "x.json"}
  Json = {"a.json", "b.json", "c.json", "x.json"}
  Scripts = {"s1.sh", "s2.sh", "s3.sh"}
  Sh = {"s1.sh", "s2.sh", "s3.sh"}
  FileText <- MCFileText
  ScriptText <- MCScriptText
  CJsonParse <- MCCJsonParse
  Lower <- MCLower
  NoFile = ""
  Others <- MCOthers
  Other = "x.json"
  ReadFails = TRUE
  MaxUpgrades = 1
INVARIANTS TypeOK LoadedWhole Usable FreshWorks
PROPERTY LoadHeals

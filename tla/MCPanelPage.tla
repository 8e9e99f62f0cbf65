---------------------------- MODULE MCPanelPage ----------------------------
EXTENDS PanelPage

MCViews == AllPanels
============================================================================
